---- MODULE Spec2Model ----
(***************************************************************************)
(* garupa-unpacker: manifest diff (compare.ts and its earlier script),     *)
(* resilient fetcher (getAssets.ts and its earlier script) and the p-limit *)
(* admission of the download batch.                                        *)
(*                                                                         *)
(* The specifications share the variables below:                           *)
(*   SpecDiff  the manifest diff of compareVersions / the earlier main     *)
(*   Spec      downloadFile tasks of one or more fetch batches             *)
(*   SpecPool  the pLimit(MAX_CONCURRENT_DOWNLOADS) admission of a batch   *)
(*   SpecPath  the destination path computed by downloadFile               *)
(*   SpecMerge one pass of the segment merge over one directory            *)
(*   SpecRecon removeUnchangedFiles over a reference and a candidate tree  *)
(* Each specification leaves the other parts' variables at their initial   *)
(* value.                                                                  *)
(***************************************************************************)
EXTENDS Integers, Sequences, FiniteSets, TLC

VARIABLES
    \* ---- manifest diff ----
    oldLines,    \* lines of the older snapshot file
    newLines,    \* lines of the newer snapshot file
    diffBy,      \* which program computed the diff: "none", "compareVersions", "main"
    added,       \* the `added` array (compare.ts) / `added` (earlier script)
    changed,     \* the `changed` array (compare.ts) / `modified` (earlier script)
    \* ---- fetcher ----
    script,      \* which fetch program runs: "getAssets" (src/src/getAssets.ts) or "legacy" (src/unnamed/part_002)
    batchPc,     \* "idle", "running", "done", "threw"
    task,        \* per task: the locals of its downloadFile call
    disk,        \* per task: the file at savePath
    surfaced,    \* what the batch hands to its caller about failures
    prevRun,     \* the previous batch run on this destination root: "none", "allTrue", "someFalse"
    \* ---- p-limit admission ----
    poolScript,  \* which fetch program built the batch
    poolState,   \* per queued closure: "queued", "running", "done"
    \* ---- destination path of downloadFile ----
    assetPath,   \* the asset identifier handed to downloadFile
    pathPc,      \* "idle", "joined"
    savePath,    \* path.join(saveRoot, cleanPath), as its segments
    \* ---- segment merge ----
    mergeProg,   \* "acb" (mergeAllSegmentedAcbFiles), "bytes" (mergeBytesFiles of a file list), "bytesDir" (mergeBytesFiles of a directory)
    deleteSource, \* the deleteSource argument
    dirFiles,    \* the files of the directory, in the order readdir lists them
    srcExists,   \* names of the source files that are on disk
    groups,      \* segmentMap / baseMap: entries in insertion order
    mpc,         \* "idle", "loop", "streaming", "ending", "done", "threw"
    gi,          \* position of the group loop in `groups`
    ri,          \* i of pipeNext, counted from 1
    readersOpen, \* positions (in the current parts) of the read streams that are open
    readersEnded, \* positions whose read stream has emitted 'end'
    writers,     \* per output: state of its write stream and how often it was created
    outFiles,    \* per output: the file at outputPath
    merged,      \* outputs whose group was completed (merge promise resolved, or copied)
    mergeError,  \* "none", "reader", "writer": what made the pass throw
    \* ---- reconciliation ----
    reconScript, \* "current" (src/src/removeUnchangedFiles.ts) or "earlier" (src/unnamed/part_000)
    refTree,     \* change_old: content per relative path
    candStart,   \* change as it was when removeUnchangedFiles was called
    candTree,    \* change: content per relative path
    rtask,       \* per candidate path: position of its limited closure
    changedFiles, \* the changedFiles array of the earlier script
    reconPc,     \* "idle", "running", "done", "threw"
    returned,    \* what removeUnchangedFiles resolved with
    candDirs,    \* the directories of the candidate tree that exist
    pruneStack,  \* the removeEmptyDirs calls in progress, innermost last
    pruneMet,    \* the failures readdir met in removeEmptyDirs: directory and error code
    gaveUp,      \* candidate paths whose safeDelete ran out of retries
    doneOrder,   \* candidate paths in the order their closures ended
    \* ---- safeRead / safeDelete ----
    safeOp,      \* "read" (safeRead) or "delete" (safeDelete)
    safePc,      \* "idle", "loop", "returned", "rethrew", "failed", "warned"
    safeRetry,   \* the retry parameter
    safeCodes,   \* outcome of every fs call made so far: "ok" or the error code
    safeWaits,   \* the milliseconds of every wait made so far
    \* ---- the limiter of removeUnchangedFiles ----
    callState,   \* per removeUnchangedFiles call: "idle", "waiting", "returned"
    limitQueue,  \* the closures given to `limit`, oldest first: call, index and state
    \* ---- the commands ----
    cliCmd,      \* the command that runs: "index", "compare", "downloadAB", "getAssets"
    hasFolders,  \* whether the export has the change and change_old folders
    cliPc,       \* "idle", "asked", "calling", "exited"
    cliCall,     \* the stage function that is awaited
    cliLog,      \* start, end and throw of every stage function, in order
    exitCode,    \* the exit status of the process
    \* ---- the version registry ----
    abScript,    \* "current" (lines 66-158), "urlOnly" (lines 220-286), "earlier" (part_003)
    registry,    \* AssetBundleInfoUrl.json: the entries in key order
    snapshots,   \* the versions that have a snapshot file
    abPc,        \* "off", "idle", "requesting", "done", "threw"
    abInput,     \* what the user typed
    abTarget,    \* the version and URL of the call, or its error
    abRequests,  \* GETs the call has sent
    abBefore,    \* registry and snapshots when the call began
    abResult,    \* the object the call returned
    \* ---- the choice of versions ----
    filesInDir,  \* readdir of the snapshot directory, in its order
    targetVersion, \* the targetVersion parameter
    selPc,       \* "off", "idle", "done", or the error thrown
    selected,    \* olderFile and newestFile
    diffWritten, \* whether the diff record was written
    \* ---- flatFolder ----
    flatTree,    \* the entries of the file system: path, kind and, for a file, where it was at the start
    flatPc,      \* "off", "filling", "running", "returned", "threw"
    flatStack,   \* the flatFolder calls that have not returned, outermost first
    original,    \* the files of the tree when flatFolder was called
    flatErr      \* the code of the error thrown

diffVars == <<oldLines, newLines, diffBy, added, changed>>
fetchVars == <<script, batchPc, task, disk, surfaced, prevRun>>
poolVars == <<poolScript, poolState>>
pathVars == <<assetPath, pathPc, savePath>>
mergeVars == <<mergeProg, deleteSource, dirFiles, srcExists, groups, mpc, gi, ri,
               readersOpen, readersEnded, writers, outFiles, merged, mergeError>>
reconVars == <<reconScript, refTree, candStart, candTree, rtask, changedFiles, reconPc, returned,
               candDirs, pruneStack, pruneMet, gaveUp, doneOrder>>
safeVars == <<safeOp, safePc, safeRetry, safeCodes, safeWaits>>
limitVars == <<callState, limitQueue>>
earlyVars == <<diffVars, fetchVars, poolVars, pathVars, mergeVars, reconVars, safeVars, limitVars>>
cliVars == <<cliCmd, hasFolders, cliPc, cliCall, cliLog, exitCode>>
abVars == <<abScript, registry, snapshots, abPc, abInput, abTarget, abRequests, abBefore, abResult>>
selVars == <<filesInDir, targetVersion, selPc, selected, diffWritten>>
flatVars == <<flatTree, flatPc, flatStack, original, flatErr>>
lateVars == <<cliVars, abVars, selVars, flatVars>>
vars == <<earlyVars, lateVars>>

(***************************************************************************)
(* Bounds of the model.                                                    *)
(***************************************************************************)
MaxLines == 2        \* lines per snapshot file
NTasks == 2          \* download tasks of one batch in Spec
BodyLen == 2         \* chunks of one response body
MaxSegs == 3         \* path segments of one asset identifier
MaxFiles == 3        \* files of the directory in SpecMerge
MaxChunks == 2       \* chunks of a non-empty source segment
NPaths == 2          \* relative paths of the two trees in SpecRecon
MaxBusy == 5         \* EBUSY/EPERM errors in a row that one file operation can meet
NewCount == 8        \* |diffJson.new| in SpecPool
ChangeCount == 3     \* |diffJson.change| in SpecPool
FirstCount == 6      \* candidate files of the first removeUnchangedFiles call in SpecLimit
SecondCount == 2     \* candidate files of the second call in SpecLimit
NLastParts == 3      \* last components 80, 90, ... of the versions in SpecAB
MaxVerFiles == 3     \* files of the snapshot directory in SpecSelect
MaxEntries == 4      \* files and directories under the root in SpecFlat

(***************************************************************************)
(* Program constants.                                                      *)
(***************************************************************************)
MAX_CONCURRENT_DOWNLOADS == 10
PER_FILE_RETRIES == 3
PER_FILE_BACKOFF_SECONDS == 1
RECON_CONCURRENCY == 5
SAFE_RETRY == 5

(***************************************************************************)
(* Strings are sequences of character codes; JavaScript's default          *)
(* Array.prototype.sort orders strings by code unit, a proper prefix       *)
(* first.                                                                  *)
(***************************************************************************)
RECURSIVE StrLess(_, _)
StrLess(a, b) ==
    IF a = <<>> THEN b # <<>>
    ELSE IF b = <<>> THEN FALSE
    ELSE IF Head(a) # Head(b) THEN Head(a) < Head(b)
    ELSE StrLess(Tail(a), Tail(b))

\* Insert string s into the ascending sequence srt.
RECURSIVE SortedInsert(_, _)
SortedInsert(s, srt) ==
    IF srt = <<>> THEN <<s>>
    ELSE IF StrLess(Head(srt), s) \/ Head(srt) = s
         THEN <<Head(srt)>> \o SortedInsert(s, Tail(srt))
         ELSE <<s>> \o srt

\* Faulty variant: the array is left in the order of the map's keys.
SortMutant(arr) == arr

\* arr.sort() with the default comparator.
RECURSIVE Sort(_)
Sort(arr) ==
    IF arr = <<>> THEN <<>>
    ELSE SortedInsert(Head(arr), Sort(Tail(arr)))

Range(f) == {f[i] : i \in DOMAIN f}

(***************************************************************************)
(* Manifest snapshots.  A line is the sequence of path-shaped tokens that  *)
(* precede its hash token, and the hash token ("" when the line has no     *)
(* @-prefixed 64-hex token).                                               *)
(***************************************************************************)
Paths == {<<1>>, <<1, 2>>, <<2>>}
Hashes == {"h1", "h2"}
NoHash == ""

LineSet ==
    {[toks |-> <<p>>, hash |-> h] : p \in Paths, h \in Hashes}
    \cup {[toks |-> <<<<1>>>>, hash |-> NoHash]}

RECURSIVE SeqsUpTo(_, _)
SeqsUpTo(S, n) ==
    IF n = 0 THEN {<<>>}
    ELSE LET shorter == SeqsUpTo(S, n - 1)
         IN shorter \cup {Append(s, x) : s \in {q \in shorter : Len(q) = n - 1}, x \in S}

Files == SeqsUpTo(LineSet, MaxLines)

Null == [path |-> <<>>, hashValue |-> NoHash]

\* extractPathAndHash: null without a hash or without a path token before
\* it, otherwise the last path token before the hash and the hash.
extractPathAndHash(line) ==
    IF line.hash = NoHash THEN Null
    ELSE IF line.toks = <<>> THEN Null
    ELSE [path |-> line.toks[Len(line.toks)], hashValue |-> line.hash]

\* A Map is kept as its entries in insertion order, keys pairwise distinct.
MapHas(m, k) == \E i \in DOMAIN m : m[i].key = k
MapGet(m, k) == LET i == CHOOSE j \in DOMAIN m : m[j].key = k IN m[i].val
MapKeys(m) == [i \in DOMAIN m |-> m[i].key]

\* Faulty variant: an existing key keeps its first value.
MapSetMutant(m, k, v) ==
    IF \E i \in DOMAIN m : m[i].key = k THEN m ELSE Append(m, [key |-> k, val |-> v])

\* Map.prototype.set: replaces the value of an existing key in place,
\* appends a new key.
MapSet(m, k, v) ==
    IF MapHas(m, k)
    THEN [i \in DOMAIN m |-> IF m[i].key = k THEN [key |-> k, val |-> v] ELSE m[i]]
    ELSE Append(m, [key |-> k, val |-> v])

\* readFileToAssetMap: data.set(path, hash) for every line that parses.
RECURSIVE readFileToAssetMapFrom(_, _)
readFileToAssetMapFrom(data, lines) ==
    IF lines = <<>> THEN data
    ELSE LET parsed == extractPathAndHash(Head(lines))
         IN readFileToAssetMapFrom(
                IF parsed # Null THEN MapSet(data, parsed.path, parsed.hashValue) ELSE data,
                Tail(lines))

readFileToAssetMap(lines) == readFileToAssetMapFrom(<<>>, lines)

\* Faulty variant: the filter keeps every key of the new manifest.
IsAddedMutant(p, oldMap, newMap) == TRUE

\* p => !oldMap.has(p)
IsAdded(p, oldMap, newMap) == ~MapHas(oldMap, p)

\* Faulty variant: the hashes are not compared.
IsChangedMutant(p, oldMap, newMap) == MapHas(oldMap, p)

\* p => oldMap.has(p) && newMap.get(p) !== oldMap.get(p)
IsChanged(p, oldMap, newMap) ==
    MapHas(oldMap, p) /\ MapGet(newMap, p) # MapGet(oldMap, p)

\* Faulty variant: the keys of the old map that the new map lacks are reported.
DiffAddedMutant(oldMap, newMap) == Sort(SelectSeq(MapKeys(oldMap), LAMBDA p : ~MapHas(newMap, p)))

\* [...newMap.keys()].filter(...).sort(); SelectSeq is Array.prototype.filter.
DiffAdded(oldMap, newMap) == Sort(SelectSeq(MapKeys(newMap), LAMBDA p : IsAdded(p, oldMap, newMap)))
DiffChanged(oldMap, newMap) == Sort(SelectSeq(MapKeys(newMap), LAMBDA p : IsChanged(p, oldMap, newMap)))

\* The earlier script iterates new Set(newData.keys()): the same keys in the
\* same order, tested against new Set(oldData.keys()).
LegacyIsAdded(p, oldMap, newMap) == p \notin Range(MapKeys(oldMap))
LegacyIsModified(p, oldMap, newMap) ==
    p \in Range(MapKeys(oldMap)) /\ MapGet(newMap, p) # MapGet(oldMap, p)
LegacyAdded(oldMap, newMap) == Sort(SelectSeq(MapKeys(newMap), LAMBDA p : LegacyIsAdded(p, oldMap, newMap)))
LegacyModified(oldMap, newMap) == Sort(SelectSeq(MapKeys(newMap), LAMBDA p : LegacyIsModified(p, oldMap, newMap)))

InitDiff ==
    /\ oldLines \in Files
    /\ newLines \in Files
    /\ diffBy = "none"
    /\ added = <<>>
    /\ changed = <<>>

IdleDiff ==
    /\ oldLines = <<>>
    /\ newLines = <<>>
    /\ diffBy = "none"
    /\ added = <<>>
    /\ changed = <<>>

\* compareVersions, from reading the two snapshots to the diff record.
CompareVersions ==
    /\ diffBy = "none"
    /\ LET oldMap == readFileToAssetMap(oldLines)
           newMap == readFileToAssetMap(newLines)
       IN /\ added' = DiffAdded(oldMap, newMap)
          /\ changed' = DiffChanged(oldMap, newMap)
    /\ diffBy' = "compareVersions"
    /\ UNCHANGED <<oldLines, newLines, fetchVars, poolVars, pathVars, mergeVars, reconVars, safeVars, limitVars, lateVars>>

\* main of the earlier compare script, same stretch.
LegacyCompareMain ==
    /\ diffBy = "none"
    /\ LET oldData == readFileToAssetMap(oldLines)
           newData == readFileToAssetMap(newLines)
       IN /\ added' = LegacyAdded(oldData, newData)
          /\ changed' = LegacyModified(oldData, newData)
    /\ diffBy' = "main"
    /\ UNCHANGED <<oldLines, newLines, fetchVars, poolVars, pathVars, mergeVars, reconVars, safeVars, limitVars, lateVars>>

NextDiff == CompareVersions \/ LegacyCompareMain

(***************************************************************************)
(* Fetcher: downloadFile and the batch around it.                          *)
(***************************************************************************)
Tasks == 1..NTasks
Scripts == {"getAssets", "legacy"}

\* e.response?.status of a failed GET; NoStatus stands for undefined (a
\* timeout, a connection error, or an error of the write stream).
NoStatus == 0
GetFailures == {403, 404, 500, NoStatus}

NoFile == [exists |-> FALSE, len |-> 0]
IsComplete(f) == f.exists /\ f.len = BodyLen
IsPartial(f) == f.exists /\ f.len < BodyLen

Fresh(pc) ==
    [pc |-> pc, attempt |-> 0, backoff |-> PER_FILE_BACKOFF_SECONDS, gets |-> 0,
     waits |-> <<>>, last |-> <<>>, result |-> "none"]

InProgress(t) == task[t].pc \in {"requesting", "streaming", "backoff", "hung"}
activeCount == Cardinality({t \in Tasks : InProgress(t)})

\* Faulty variant: no existence check before the retry loop.
HasSkipCheckMutant(s) == FALSE

\* getAssets.ts tests fs.access(savePath) before the retry loop; the earlier
\* script enters the loop directly.
HasSkipCheck(s) == s = "getAssets"

\* Faulty variant: 403 is retried.
IsTerminalStatusMutant(status) == status = 404

\* status === 403 || status === 404
IsTerminalStatus(status) == status = 403 \/ status = 404

\* Faulty variant: off by one, a wait follows the last attempt.
CanRetryMutant(attempt) == attempt <= PER_FILE_RETRIES

\* if (attempt < PER_FILE_RETRIES) in the catch block
CanRetry(attempt) == attempt < PER_FILE_RETRIES

\* while (attempt < PER_FILE_RETRIES)
LoopContinues(attempt) == attempt < PER_FILE_RETRIES

\* backoff *= 2
NextBackoff(backoff) == backoff * 2

\* Faulty variant: the last error is rethrown once the retries are used up.
ExhaustedReturnMutant == "throw"

\* the return false that follows the loop
ExhaustedReturn == "false"

\* attempt++; mkdir(dirname, recursive); axiosInstance.get(url) is issued.
BeginAttempt(r) ==
    [r EXCEPT !.pc = "requesting", !.attempt = @ + 1, !.gets = @ + 1, !.last = <<>>]

\* The catch block of one attempt that failed with `status`.
Catch(r, status) ==
    IF IsTerminalStatus(status)
    THEN [r EXCEPT !.pc = "done", !.result = "false", !.last = <<status>>]
    ELSE IF CanRetry(r.attempt)
    THEN [r EXCEPT !.pc = "backoff", !.last = <<status>>, !.waits = Append(@, r.backoff)]
    ELSE [r EXCEPT !.pc = "done", !.result = ExhaustedReturn, !.last = <<status>>]

NotSurfaced == [known |-> FALSE, ids |-> {}]

InitFetch ==
    /\ script \in Scripts
    /\ batchPc = "idle"
    /\ task = [t \in Tasks |-> Fresh("idle")]
    /\ disk = [t \in Tasks |-> NoFile]
    /\ surfaced = NotSurfaced
    /\ prevRun = "none"

IdleFetch ==
    /\ script = "getAssets"
    /\ batchPc = "idle"
    /\ task = [t \in Tasks |-> Fresh("idle")]
    /\ disk = [t \in Tasks |-> NoFile]
    /\ surfaced = NotSurfaced
    /\ prevRun = "none"

\* downloadDiffAssets (getAssets.ts) or main (earlier script) up to the
\* creation of the limited tasks: every task is queued on the limiter.
StartBatch ==
    /\ batchPc \in {"idle", "done"}
    /\ batchPc' = "running"
    /\ prevRun' = IF batchPc = "idle" THEN "none"
                  ELSE IF \A t \in Tasks : task[t].result = "true" THEN "allTrue"
                  ELSE "someFalse"
    /\ task' = [t \in Tasks |-> Fresh("queued")]
    /\ surfaced' = NotSurfaced
    /\ UNCHANGED <<script, disk, diffVars, poolVars, pathVars, mergeVars, reconVars, safeVars, limitVars, lateVars>>

\* The limiter dequeues task t and calls downloadFile: the skip check, then
\* the first attempt.
Start(t) ==
    /\ batchPc = "running"
    /\ task[t].pc = "queued"
    /\ \A u \in Tasks : u < t => task[u].pc # "queued"
    /\ activeCount < MAX_CONCURRENT_DOWNLOADS
    /\ task' = [task EXCEPT ![t] =
                  IF HasSkipCheck(script) /\ disk[t].exists
                  THEN [@ EXCEPT !.pc = "done", !.result = "true"]
                  ELSE BeginAttempt(@)]
    /\ UNCHANGED <<script, batchPc, disk, surfaced, prevRun, diffVars, poolVars, pathVars, mergeVars, reconVars, safeVars, limitVars, lateVars>>

\* The GET is rejected: an HTTP error status, or no response at all.
GetFails(t, status) ==
    /\ task[t].pc = "requesting"
    /\ task' = [task EXCEPT ![t] = Catch(@, status)]
    /\ UNCHANGED <<script, batchPc, disk, surfaced, prevRun, diffVars, poolVars, pathVars, mergeVars, reconVars, safeVars, limitVars, lateVars>>

\* The GET resolves with the response stream; createWriteStream(savePath)
\* opens the final path for writing, truncating what is there.
GetResponds(t) ==
    /\ task[t].pc = "requesting"
    /\ task' = [task EXCEPT ![t].pc = "streaming"]
    /\ disk' = [disk EXCEPT ![t] = [exists |-> TRUE, len |-> 0]]
    /\ UNCHANGED <<script, batchPc, surfaced, prevRun, diffVars, poolVars, pathVars, mergeVars, reconVars, safeVars, limitVars, lateVars>>

\* The whole body is piped and the writer emits 'finish'.
WriterFinish(t) ==
    /\ task[t].pc = "streaming"
    /\ disk' = [disk EXCEPT ![t].len = BodyLen]
    /\ task' = [task EXCEPT ![t].pc = "done", ![t].result = "true"]
    /\ UNCHANGED <<script, batchPc, surfaced, prevRun, diffVars, poolVars, pathVars, mergeVars, reconVars, safeVars, limitVars, lateVars>>

\* The writer emits 'error' after k chunks reached the file: the promise
\* rejects with an error that carries no response.
WriterError(t, k) ==
    /\ task[t].pc = "streaming"
    /\ disk' = [disk EXCEPT ![t].len = k]
    /\ task' = [task EXCEPT ![t] = Catch(@, NoStatus)]
    /\ UNCHANGED <<script, batchPc, surfaced, prevRun, diffVars, poolVars, pathVars, mergeVars, reconVars, safeVars, limitVars, lateVars>>

\* The response stream errors after k chunks: pipe() does not forward the
\* error to the writer, so neither 'finish' nor 'error' is emitted.
SourceError(t, k) ==
    /\ task[t].pc = "streaming"
    /\ disk' = [disk EXCEPT ![t].len = k]
    /\ task' = [task EXCEPT ![t].pc = "hung"]
    /\ UNCHANGED <<script, batchPc, surfaced, prevRun, diffVars, poolVars, pathVars, mergeVars, reconVars, safeVars, limitVars, lateVars>>

\* The backoff timer fires: backoff *= 2, then the loop test.
TimerFires(t) ==
    /\ task[t].pc = "backoff"
    /\ LET r == [task[t] EXCEPT !.backoff = NextBackoff(@)]
       IN task' = [task EXCEPT ![t] =
                     IF LoopContinues(r.attempt)
                     THEN BeginAttempt(r)
                     ELSE [r EXCEPT !.pc = "done", !.result = ExhaustedReturn]]
    /\ UNCHANGED <<script, batchPc, disk, surfaced, prevRun, diffVars, poolVars, pathVars, mergeVars, reconVars, safeVars, limitVars, lateVars>>

FailedTasks == {t \in Tasks : task[t].result = "false"}

\* What the caller has once the batch is over: downloadDiffAssets discards
\* the booleans and returns void; the earlier main collects failedPaths
\* and writes failed_downloads_<version>.txt when it is not empty.
SurfacedBy(s) ==
    IF s = "legacy" THEN [known |-> TRUE, ids |-> FailedTasks] ELSE NotSurfaced

\* await Promise.all(tasks): rejects with the first rejection, resolves
\* once every task has returned.
AwaitAll ==
    /\ batchPc = "running"
    /\ \/ \E t \in Tasks : task[t].result = "throw"
       \/ \A t \in Tasks : task[t].pc = "done"
    /\ batchPc' = IF \E t \in Tasks : task[t].result = "throw" THEN "threw" ELSE "done"
    /\ surfaced' = IF \E t \in Tasks : task[t].result = "throw" THEN surfaced ELSE SurfacedBy(script)
    /\ UNCHANGED <<script, task, disk, prevRun, diffVars, poolVars, pathVars, mergeVars, reconVars, safeVars, limitVars, lateVars>>

NextFetch ==
    \/ StartBatch
    \/ \E t \in Tasks : Start(t)
    \/ \E t \in Tasks, status \in GetFailures : GetFails(t, status)
    \/ \E t \in Tasks : GetResponds(t)
    \/ \E t \in Tasks : WriterFinish(t)
    \/ \E t \in Tasks, k \in 0..(BodyLen - 1) : WriterError(t, k)
    \/ \E t \in Tasks, k \in 0..(BodyLen - 1) : SourceError(t, k)
    \/ \E t \in Tasks : TimerFires(t)
    \/ AwaitAll

(***************************************************************************)
(* The limiter of a batch: limit = pLimit(MAX_CONCURRENT_DOWNLOADS), and   *)
(* every downloadFile call of the batch is wrapped in limit(...).  p-limit *)
(* starts queued closures first in, first out, while fewer than the limit  *)
(* are running.                                                            *)
(***************************************************************************)
ListTasks(list, n) == [i \in 1..n |-> [list |-> list, idx |-> i]]

\* The tasks array in creation order: diffJson.new into dirNew, then
\* diffJson.change into dirChange, then diffJson.change into dirChangeOld;
\* the earlier script maps the lines of the list file, added then modified.
PoolQueue(s) ==
    IF s = "getAssets"
    THEN ListTasks("new", NewCount) \o ListTasks("change", ChangeCount)
         \o ListTasks("change_old", ChangeCount)
    ELSE ListTasks("assetPaths", NewCount + ChangeCount)

\* Faulty variant: one limiter per list.
LimiterOfMutant(list) == list

\* Every list goes through the one `limit` of the batch.
LimiterOf(list) == "limit"

SameLimiter(s, i, j) == LimiterOf(PoolQueue(s)[i].list) = LimiterOf(PoolQueue(s)[j].list)

PoolRunning == {i \in DOMAIN poolState : poolState[i] = "running"}

InitPool ==
    /\ poolScript \in Scripts
    /\ poolState = [i \in DOMAIN PoolQueue(poolScript) |-> "queued"]

IdlePool ==
    /\ poolScript = "getAssets"
    /\ poolState = <<>>

\* The limiter starts the oldest queued closure while it runs fewer than
\* MAX_CONCURRENT_DOWNLOADS: downloadFile is called.
PoolStart(i) ==
    /\ poolState[i] = "queued"
    /\ \A j \in DOMAIN poolState :
          (j < i /\ SameLimiter(poolScript, i, j)) => poolState[j] # "queued"
    /\ Cardinality({j \in PoolRunning : SameLimiter(poolScript, i, j)}) < MAX_CONCURRENT_DOWNLOADS
    /\ poolState' = [poolState EXCEPT ![i] = "running"]
    /\ UNCHANGED <<poolScript, diffVars, fetchVars, pathVars, mergeVars, reconVars, safeVars, limitVars, lateVars>>

\* downloadFile returns (true or false): the limiter's slot is released.
PoolSettle(i) ==
    /\ poolState[i] = "running"
    /\ poolState' = [poolState EXCEPT ![i] = "done"]
    /\ UNCHANGED <<poolScript, diffVars, fetchVars, pathVars, mergeVars, reconVars, safeVars, limitVars, lateVars>>

NextPool ==
    \/ \E i \in DOMAIN poolState : PoolStart(i)
    \/ \E i \in DOMAIN poolState : PoolSettle(i)

(***************************************************************************)
(* Destination path of downloadFile.  A path is its sequence of segments;  *)
(* an asset identifier also records whether it starts with "/".            *)
(***************************************************************************)
Segments == {"a", "x", ".."}
AssetIds == [slash : BOOLEAN, segs : SeqsUpTo(Segments, MaxSegs) \ {<<>>}]

\* The destination root handed to downloadFile (dirNew = <newRoot>/new),
\* an absolute path.
saveRoot == <<"assets", "new">>

\* assetPath.startsWith("/") ? assetPath.substring(1) : assetPath
\* Removing the one leading "/" leaves the segments as they are.
cleanPath(id) == id.segs

\* path.normalize on an absolute path: ".." removes the segment before it,
\* and is dropped at the root.
RECURSIVE NormalizeFrom(_, _)
NormalizeFrom(stack, segs) ==
    IF segs = <<>> THEN stack
    ELSE IF Head(segs) = ".."
         THEN NormalizeFrom(IF stack = <<>> THEN <<>> ELSE SubSeq(stack, 1, Len(stack) - 1),
                            Tail(segs))
         ELSE NormalizeFrom(Append(stack, Head(segs)), Tail(segs))

\* path.join(a, b): the segments of both, normalized.
PathJoin(a, b) == NormalizeFrom(<<>>, a \o b)

InitPath ==
    /\ assetPath \in AssetIds
    /\ pathPc = "idle"
    /\ savePath = <<>>

IdlePath ==
    /\ assetPath = [slash |-> FALSE, segs |-> <<"a">>]
    /\ pathPc = "idle"
    /\ savePath = <<>>

\* downloadFile up to the computation of savePath; no test of the result
\* follows before the file system is touched.
DownloadFilePath ==
    /\ pathPc = "idle"
    /\ savePath' = PathJoin(saveRoot, cleanPath(assetPath))
    /\ pathPc' = "joined"
    /\ UNCHANGED <<assetPath, diffVars, fetchVars, poolVars, mergeVars, reconVars, safeVars, limitVars, lateVars>>

NextPath == DownloadFilePath

(***************************************************************************)
(* Segment merge (mergeBytes.ts).  A file name is its base and the digits  *)
(* of its ordinal suffix; the name without a suffix is <base><ext>.bytes   *)
(* for mergeBytesFiles and <base>.acb in the ACB pass, where it is listed  *)
(* but is no segment, and lies at the output path of the group <base>.     *)
(* A source holds no chunk or MaxChunks chunks, each chunk tagged with the *)
(* file it comes from.                                                     *)
(***************************************************************************)
MergeProgs == {"acb", "bytes", "bytesDir"}
Bases == {"x", "y"}
NoSuffix == <<>>
SuffixesOf(b) ==
    IF b = "x" THEN {NoSuffix, <<0, 0, 1>>, <<0, 0, 0, 1>>, <<0, 0, 3>>}
    ELSE {NoSuffix, <<0, 0, 1>>}
Names == UNION {{[base |-> b, sfx |-> x] : x \in SuffixesOf(b)} : b \in Bases}
FileRecs == [name : Names, len : {0, MaxChunks}]
DistinctNames(d) == \A i, j \in DOMAIN d : i # j => d[i].name # d[j].name
Dirs == {d \in SeqsUpTo(FileRecs, MaxFiles) : DistinctNames(d)}

Content(f) == [k \in 1..f.len |-> <<f.name, k>>]

\* parseInt(text, 10) on a run of digits.
RECURSIVE ParseIntFrom(_, _)
ParseIntFrom(acc, text) ==
    IF text = <<>> THEN acc ELSE ParseIntFrom(acc * 10 + Head(text), Tail(text))
ParseInt(text) == ParseIntFrom(0, text)

\* ACB_SEGMENT_PATTERN wants "-" and three or more digits before ".acb";
\* SEGMENT_PATTERN takes the "-digits" part as optional.
SegmentMatch(prog, name) ==
    IF prog = "acb" THEN Len(name.sfx) >= 3 ELSE TRUE

\* The ordinal of a part: parseInt of the digits, 0 without a suffix.
Ordinal(part) == IF part.index = NoSuffix THEN 0 ELSE ParseInt(part.index)

\* numericSort(a.index, b.index) / a.index - b.index
Compare(a, b) == Ordinal(a) - Ordinal(b)

\* Array.prototype.sort with that comparator; the sort is stable.
RECURSIVE InsertPart(_, _)
InsertPart(p, srt) ==
    IF srt = <<>> THEN <<p>>
    ELSE IF Compare(Head(srt), p) < 0
         THEN <<Head(srt)>> \o InsertPart(p, Tail(srt))
         ELSE <<p>> \o srt

RECURSIVE StableSort(_)
StableSort(parts) ==
    IF parts = <<>> THEN <<>>
    ELSE InsertPart(Head(parts), StableSort(Tail(parts)))

\* Faulty variant: the parts are left in discovery order.
SortPartsMutant(parts) == parts

\* segments.sort(...) / parts.sort(...)
SortParts(parts) == StableSort(parts)

\* The grouping loop: map.get(key).push({index, filepath}) for every file
\* name that matches.
RECURSIVE GroupFrom(_, _, _)
GroupFrom(map, files, prog) ==
    IF files = <<>> THEN map
    ELSE LET f == Head(files)
             key == f.name.base
             part == [index |-> f.name.sfx, file |-> f]
             sofar == IF MapHas(map, key) THEN MapGet(map, key) ELSE <<>>
         IN GroupFrom(IF SegmentMatch(prog, f.name)
                      THEN MapSet(map, key, Append(sofar, part))
                      ELSE map,
                      Tail(files), prog)

\* Faulty variant: a sole member is copied whatever its ordinal.
IsSegmentedMutant(parts) == Len(parts) > 1

\* parts.length > 1 || parts[0].index !== 0
IsSegmented(parts) == Len(parts) > 1 \/ Ordinal(parts[1]) # 0

\* if (parts.length <= 1) continue, in the ACB pass
AcbSkips(parts) == Len(parts) <= 1

\* Faulty variant: the destination is ended one member early.
EndReachedMutant(i, n) == i >= n

\* if (i >= segments.length), with i counted from 1
EndReached(i, n) == i > n

\* pipeNext(): writer.end() at the end of the parts, otherwise the read
\* stream of parts[i] is created and piped.
PipeNext(i, n) ==
    IF EndReached(i, n)
    THEN [pc |-> "ending", open |-> {}, writer |-> "ended"]
    ELSE [pc |-> "streaming", open |-> {i}, writer |-> "open"]

\* The earlier mergeBytesFiles calls writer.end() in the reader's 'error'
\* handler; the other two only reject.
ReaderErrorEndsWriter(prog) == prog = "bytesDir"

\* Faulty variant: the sources are unlinked whatever the argument.
ShouldDeleteMutant(flag) == TRUE

\* if (deleteSource)
ShouldDelete(flag) == flag

PartNames(parts) == {parts[i].file.name : i \in DOMAIN parts}
AfterDelete(flag, exists, parts) ==
    IF ShouldDelete(flag) THEN exists \ PartNames(parts) ELSE exists

NoOut == [exists |-> FALSE, bytes |-> <<>>, by |-> "none"]

\* The file at outputPath before the pass: the ACB pass writes <base>.acb
\* into the directory it reads, mergeBytesFiles writes into outputDir.
InitialOut(prog, files, key) ==
    LET whole == {f \in Range(files) : f.name = [base |-> key, sfx |-> NoSuffix]}
    IN IF prog = "acb" /\ whole # {}
       THEN [exists |-> TRUE, bytes |-> Content(CHOOSE f \in whole : TRUE), by |-> "none"]
       ELSE NoOut
NoWriter == [state |-> "none", opens |-> 0]

CurKey == groups[gi].key
CurParts == groups[gi].val
InLoop == mpc = "loop" /\ gi <= Len(groups)

InitMerge ==
    /\ mergeProg \in MergeProgs
    /\ deleteSource \in (IF mergeProg = "bytesDir" THEN {FALSE} ELSE BOOLEAN)
    /\ dirFiles \in Dirs
    /\ srcExists = {dirFiles[i].name : i \in DOMAIN dirFiles}
    /\ groups = <<>>
    /\ mpc = "idle"
    /\ gi = 0
    /\ ri = 0
    /\ readersOpen = {}
    /\ readersEnded = {}
    /\ writers = [k \in Bases |-> NoWriter]
    /\ outFiles = [k \in Bases |-> InitialOut(mergeProg, dirFiles, k)]
    /\ merged = {}
    /\ mergeError = "none"

IdleMerge ==
    /\ mergeProg = "acb"
    /\ deleteSource = FALSE
    /\ dirFiles = <<>>
    /\ srcExists = {}
    /\ groups = <<>>
    /\ mpc = "idle"
    /\ gi = 0
    /\ ri = 0
    /\ readersOpen = {}
    /\ readersEnded = {}
    /\ writers = [k \in Bases |-> NoWriter]
    /\ outFiles = [k \in Bases |-> NoOut]
    /\ merged = {}
    /\ mergeError = "none"

\* The directory is listed and the map of groups is built.
GroupFiles ==
    /\ mpc = "idle"
    /\ groups' = GroupFrom(<<>>, dirFiles, mergeProg)
    /\ gi' = 1
    /\ mpc' = "loop"
    /\ UNCHANGED <<mergeProg, deleteSource, dirFiles, srcExists, ri, readersOpen, readersEnded,
                   writers, outFiles, merged, mergeError>>
    /\ UNCHANGED <<diffVars, fetchVars, poolVars, pathVars, reconVars, safeVars, limitVars, lateVars>>

\* The loop over the groups is over: the pass returns.
PassEnds ==
    /\ mpc = "loop"
    /\ gi > Len(groups)
    /\ mpc' = "done"
    /\ UNCHANGED <<mergeProg, deleteSource, dirFiles, srcExists, groups, gi, ri, readersOpen,
                   readersEnded, writers, outFiles, merged, mergeError>>
    /\ UNCHANGED <<diffVars, fetchVars, poolVars, pathVars, reconVars, safeVars, limitVars, lateVars>>

\* ACB pass: a group of one part is passed over.
SkipSingle ==
    /\ InLoop
    /\ mergeProg = "acb"
    /\ AcbSkips(CurParts)
    /\ gi' = gi + 1
    /\ UNCHANGED <<mergeProg, deleteSource, dirFiles, srcExists, groups, mpc, ri, readersOpen,
                   readersEnded, writers, outFiles, merged, mergeError>>
    /\ UNCHANGED <<diffVars, fetchVars, poolVars, pathVars, reconVars, safeVars, limitVars, lateVars>>

\* The parts are sorted, createWriteStream(outputPath) creates or truncates
\* the output, and the first pipeNext() runs.
BeginMerge ==
    /\ InLoop
    /\ LET sorted == SortParts(CurParts)
           nxt == PipeNext(1, Len(sorted))
       IN /\ IF mergeProg = "acb" THEN ~AcbSkips(CurParts) ELSE IsSegmented(sorted)
          /\ groups' = [groups EXCEPT ![gi].val = sorted]
          /\ outFiles' = [outFiles EXCEPT ![CurKey] = [exists |-> TRUE, bytes |-> <<>>, by |-> "stream"]]
          /\ writers' = [writers EXCEPT ![CurKey] = [state |-> nxt.writer, opens |-> @.opens + 1]]
          /\ ri' = 1
          /\ readersOpen' = nxt.open
          /\ readersEnded' = {}
          /\ mpc' = nxt.pc
    /\ UNCHANGED <<mergeProg, deleteSource, dirFiles, srcExists, gi, merged, mergeError>>
    /\ UNCHANGED <<diffVars, fetchVars, poolVars, pathVars, reconVars, safeVars, limitVars, lateVars>>

\* mergeBytesFiles: a sole part with ordinal 0 is copied with fs.copyFile;
\* the file-list version then unlinks the source when asked to.
CopyGroup ==
    /\ InLoop
    /\ mergeProg # "acb"
    /\ LET sorted == SortParts(CurParts)
       IN /\ ~IsSegmented(sorted)
          /\ groups' = [groups EXCEPT ![gi].val = sorted]
          /\ outFiles' = [outFiles EXCEPT ![CurKey] =
                            [exists |-> TRUE, bytes |-> Content(sorted[1].file), by |-> "copy"]]
          /\ srcExists' = AfterDelete(deleteSource, srcExists, sorted)
    /\ merged' = merged \cup {CurKey}
    /\ gi' = gi + 1
    /\ UNCHANGED <<mergeProg, deleteSource, dirFiles, mpc, ri, readersOpen, readersEnded,
                   writers, mergeError>>
    /\ UNCHANGED <<diffVars, fetchVars, poolVars, pathVars, reconVars, safeVars, limitVars, lateVars>>

\* The open read stream delivers the whole part and emits 'end': i++ and
\* pipeNext().
ReaderEnd ==
    /\ mpc = "streaming"
    /\ ri \in readersOpen
    /\ LET nxt == PipeNext(ri + 1, Len(CurParts))
       IN /\ outFiles' = [outFiles EXCEPT ![CurKey].bytes = @ \o Content(CurParts[ri].file)]
          /\ readersEnded' = readersEnded \cup {ri}
          /\ readersOpen' = (readersOpen \ {ri}) \cup nxt.open
          /\ writers' = [writers EXCEPT ![CurKey].state = nxt.writer]
          /\ ri' = ri + 1
          /\ mpc' = nxt.pc
    /\ UNCHANGED <<mergeProg, deleteSource, dirFiles, srcExists, groups, gi, merged, mergeError>>
    /\ UNCHANGED <<diffVars, fetchVars, poolVars, pathVars, reconVars, safeVars, limitVars, lateVars>>

\* The open read stream emits 'error' after k chunks (k = 0: the file could
\* not be opened): the merge promise rejects and the pass throws.
ReaderError(k) ==
    /\ mpc = "streaming"
    /\ ri \in readersOpen
    /\ k = 0 \/ k < CurParts[ri].file.len
    /\ outFiles' = [outFiles EXCEPT ![CurKey].bytes =
                       @ \o SubSeq(Content(CurParts[ri].file), 1, k)]
    /\ readersOpen' = readersOpen \ {ri}
    /\ writers' = [writers EXCEPT ![CurKey].state =
                      IF ReaderErrorEndsWriter(mergeProg) THEN "ended" ELSE @]
    /\ mpc' = "threw"
    /\ mergeError' = "reader"
    /\ UNCHANGED <<mergeProg, deleteSource, dirFiles, srcExists, groups, gi, ri, readersEnded, merged>>
    /\ UNCHANGED <<diffVars, fetchVars, poolVars, pathVars, reconVars, safeVars, limitVars, lateVars>>

\* The write stream emits 'error': the merge promise rejects and the pass
\* throws.
MergeWriterError ==
    /\ mpc \in {"streaming", "ending"}
    /\ writers' = [writers EXCEPT ![CurKey].state = "errored"]
    /\ mpc' = "threw"
    /\ mergeError' = "writer"
    /\ UNCHANGED <<mergeProg, deleteSource, dirFiles, srcExists, groups, gi, ri, readersOpen,
                   readersEnded, outFiles, merged>>
    /\ UNCHANGED <<diffVars, fetchVars, poolVars, pathVars, reconVars, safeVars, limitVars, lateVars>>

\* The write stream emits 'finish': the merge promise resolves, the sources
\* are unlinked when asked to, and the loop goes on.
MergeWriterFinish ==
    /\ mpc = "ending"
    /\ writers' = [writers EXCEPT ![CurKey].state = "finished"]
    /\ merged' = merged \cup {CurKey}
    /\ srcExists' = AfterDelete(deleteSource, srcExists, CurParts)
    /\ gi' = gi + 1
    /\ mpc' = "loop"
    /\ UNCHANGED <<mergeProg, deleteSource, dirFiles, groups, ri, readersOpen, readersEnded,
                   outFiles, mergeError>>
    /\ UNCHANGED <<diffVars, fetchVars, poolVars, pathVars, reconVars, safeVars, limitVars, lateVars>>

NextMerge ==
    \/ GroupFiles
    \/ PassEnds
    \/ SkipSingle
    \/ BeginMerge
    \/ CopyGroup
    \/ ReaderEnd
    \/ \E k \in 0..(MaxChunks - 1) : ReaderError(k)
    \/ MergeWriterError
    \/ MergeWriterFinish

(***************************************************************************)
(* Reconciliation (removeUnchangedFiles).                                  *)
(***************************************************************************)
RPaths == 1..NPaths
Absent == "absent"
Contents == {"c1", "c2"}
Trees == [RPaths -> Contents \cup {Absent}]
ReconScripts == {"current", "earlier"}
NotReturned == [known |-> FALSE, list |-> <<>>]

\* The directories of a tree, each as its path from the root, in the order
\* readdir lists them; the directory that holds the file of path p.
RootDir == <<>>
DirList == << <<"a">>, <<"a", "b">>, <<"c">> >>
AllDirs == {RootDir} \cup Range(DirList)
DirOf(p) ==
    IF p = 1 THEN <<"a", "b">>
    ELSE IF p = 2 THEN <<"a">>
    ELSE IF p = 3 THEN <<"c">>
    ELSE RootDir

IsChildDir(e, d) == Len(e) = Len(d) + 1 /\ SubSeq(e, 1, Len(d)) = d
ParentClosed(D) == \A e \in D : \A d \in AllDirs : IsChildDir(e, d) => d \in D

\* The sets of directories a candidate tree with the files of `tree` can
\* consist of: the root, every directory that holds a file, their
\* ancestors, and possibly directories without a file.
DirSetsOf(tree) ==
    {D \in SUBSET AllDirs :
        /\ RootDir \in D
        /\ ParentClosed(D)
        /\ \A p \in RPaths : tree[p] # Absent => DirOf(p) \in D}

\* entries of readdir(dir): the files and the sub-directories.
FilesIn(d, tree) == {p \in RPaths : tree[p] # Absent /\ DirOf(p) = d}
SubDirs(d, D) == SelectSeq(DirList, LAMBDA e : e \in D /\ IsChildDir(e, d))
NoEntries(d, D, tree) == FilesIn(d, tree) = {} /\ SubDirs(d, D) = <<>>

\* fsp.rmdir(dir).catch(() => {}): removes the directory when it is empty,
\* fails otherwise, and the failure is swallowed.
Rmdir(d, D, tree) == IF NoEntries(d, D, tree) THEN D \ {d} ELSE D

\* Faulty variant: every content has the same digest.
hashOfMutant(content) == <<"md5">>

\* createHash("md5") of the file content; two contents are told apart by
\* their digests.
hashOf(content) == <<"md5", content>>

\* Faulty variant: one round too many.
LoopGoesOnMutant(retry) == retry >= 0

\* while (retry > 0)
LoopGoesOn(retry) == retry > 0

\* The while (retry > 0) loop of safeRead and safeDelete when the call
\* meets `busy` EBUSY/EPERM errors in a row before it would succeed: "ok"
\* when a call succeeded, "exhausted" when the loop ran out of retries.
RECURSIVE SafeLoop(_, _)
SafeLoop(retry, busy) ==
    IF LoopGoesOn(retry)
    THEN IF busy > 0 THEN SafeLoop(retry - 1, busy - 1) ELSE "ok"
    ELSE "exhausted"

\* safeRead(filePath): retry = 5; throws after the loop.
safeRead(busy) == IF SafeLoop(SAFE_RETRY, busy) = "ok" THEN "read" ELSE "throw"

\* safeDelete(filePath): retry = 5; warns and returns after the loop.
safeDelete(busy) == IF SafeLoop(SAFE_RETRY, busy) = "ok" THEN "unlinked" ELSE "kept"

\* relativeMap.has(rel)
InReference(p) == refTree[p] # Absent

\* What the function resolves with: the earlier script returns
\* changedFiles, the current one has no return statement.
ReturnOf(s, list) == IF s = "earlier" THEN [known |-> TRUE, list |-> list] ELSE NotReturned

\* Faulty variant: the array is replaced instead of appended to.
PushChangedMutant(s, list, p) == IF s = "earlier" THEN <<p>> ELSE list

\* The earlier script pushes a path whose hashes differ; the current one
\* keeps no list.
PushChanged(s, list, p) == IF s = "earlier" THEN Append(list, p) ELSE list

\* Faulty variant: every pair of digests counts as equal.
SameDigestMutant(oldHash, newHash) == TRUE

\* oldHash === newHash
SameDigest(oldHash, newHash) == oldHash = newHash

ReconRunning == {p \in RPaths : rtask[p] \in {"hashing", "deleting"}}

\* Faulty variant: an emptied directory is reported as not empty.
EmptyDirResultMutant == FALSE

\* return true after the rmdir of a directory without entries, or whose
\* entries were all empty directories
EmptyDirResult == TRUE

\* Faulty variant: a missing directory is an error like any other.
IsMissingCodeMutant(code) == FALSE

\* if (err && err.code === "ENOENT") return true
IsMissingCode(code) == code = "ENOENT"

\* The error codes of a failing readdir other than ENOENT.
ReaddirErrors == {"EACCES"}

\* What readdir(dir) meets: ENOENT when the directory is missing, else the
\* outcome `err` ("ok" or an error code).
ReaddirCode(d, D, err) == IF d \notin D THEN "ENOENT" ELSE err

Frame(d, pc) == [dir |-> d, pc |-> pc, todo |-> <<>>, allEmpty |-> TRUE]
Top == pruneStack[Len(pruneStack)]
Pruning == reconPc = "pruning" /\ pruneStack # <<>>

\* The call on top of the stack returns v to its caller: if (!subEmpty)
\* allEmpty = false.
PopWith(stack, v) ==
    LET rest == SubSeq(stack, 1, Len(stack) - 1)
    IN IF rest = <<>> THEN rest
       ELSE [rest EXCEPT ![Len(rest)].allEmpty = @ /\ v]

InitRecon ==
    /\ reconScript \in ReconScripts
    /\ refTree \in Trees
    /\ candStart \in Trees
    /\ candTree = candStart
    /\ candDirs \in DirSetsOf(candStart)
    /\ rtask = [p \in RPaths |-> "none"]
    /\ changedFiles = <<>>
    /\ reconPc = "idle"
    /\ returned = NotReturned
    /\ pruneStack = <<>>
    /\ pruneMet = {}
    /\ gaveUp = {}
    /\ doneOrder = <<>>

IdleRecon ==
    /\ reconScript = "current"
    /\ refTree = [p \in RPaths |-> Absent]
    /\ candStart = [p \in RPaths |-> Absent]
    /\ candTree = [p \in RPaths |-> Absent]
    /\ candDirs = {RootDir}
    /\ rtask = [p \in RPaths |-> "none"]
    /\ changedFiles = <<>>
    /\ reconPc = "idle"
    /\ returned = NotReturned
    /\ pruneStack = <<>>
    /\ pruneMet = {}
    /\ gaveUp = {}
    /\ doneOrder = <<>>

\* removeUnchangedFiles up to the creation of the limited closures: both
\* trees are walked, one closure per file of the candidate tree.
StartRecon ==
    /\ reconPc = "idle"
    /\ reconPc' = "running"
    /\ rtask' = [p \in RPaths |-> IF candTree[p] # Absent THEN "queued" ELSE "none"]
    /\ UNCHANGED <<reconScript, refTree, candStart, candTree, changedFiles, returned,
                   candDirs, pruneStack, pruneMet, gaveUp, doneOrder>>
    /\ UNCHANGED <<diffVars, fetchVars, poolVars, pathVars, mergeVars, safeVars, limitVars, lateVars>>

\* The limiter starts the closure of p: it returns at once when the
\* reference tree has no file at p, otherwise both files are hashed.  The
\* limiter goes on starting closures after the call has rejected.
ReconStart(p) ==
    /\ reconPc \in {"running", "threw"}
    /\ rtask[p] = "queued"
    /\ \A q \in RPaths : q < p => rtask[q] # "queued"
    /\ Cardinality(ReconRunning) < RECON_CONCURRENCY
    /\ rtask' = [rtask EXCEPT ![p] = IF InReference(p) THEN "hashing" ELSE "done"]
    /\ doneOrder' = IF InReference(p) THEN doneOrder ELSE Append(doneOrder, p)
    /\ UNCHANGED <<reconScript, refTree, candStart, candTree, changedFiles, reconPc, returned,
                   candDirs, pruneStack, pruneMet, gaveUp>>
    /\ UNCHANGED <<diffVars, fetchVars, poolVars, pathVars, mergeVars, safeVars, limitVars, lateVars>>

\* Promise.all of the two hashFile calls settles; busyOld and busyNew are
\* the EBUSY/EPERM errors the two reads meet.
Hashed(p, busyOld, busyNew) ==
    /\ rtask[p] = "hashing"
    /\ IF safeRead(busyOld) = "throw" \/ safeRead(busyNew) = "throw"
       THEN /\ rtask' = [rtask EXCEPT ![p] = "rejected"]
            /\ UNCHANGED <<changedFiles, doneOrder>>
       ELSE IF SameDigest(hashOf(refTree[p]), hashOf(candTree[p]))
       THEN /\ rtask' = [rtask EXCEPT ![p] = "deleting"]
            /\ UNCHANGED <<changedFiles, doneOrder>>
       ELSE /\ rtask' = [rtask EXCEPT ![p] = "done"]
            /\ changedFiles' = PushChanged(reconScript, changedFiles, p)
            /\ doneOrder' = Append(doneOrder, p)
    /\ UNCHANGED <<reconScript, refTree, candStart, candTree, reconPc, returned,
                   candDirs, pruneStack, pruneMet, gaveUp>>
    /\ UNCHANGED <<diffVars, fetchVars, poolVars, pathVars, mergeVars, safeVars, limitVars, lateVars>>

\* safeDelete(newPath) returns; busy is the EBUSY/EPERM errors unlink meets.
Deleted(p, busy) ==
    /\ rtask[p] = "deleting"
    /\ candTree' = [candTree EXCEPT ![p] = IF safeDelete(busy) = "unlinked" THEN Absent ELSE @]
    /\ gaveUp' = IF safeDelete(busy) = "unlinked" THEN gaveUp ELSE gaveUp \cup {p}
    /\ rtask' = [rtask EXCEPT ![p] = "done"]
    /\ doneOrder' = Append(doneOrder, p)
    /\ UNCHANGED <<reconScript, refTree, candStart, changedFiles, reconPc, returned,
                   candDirs, pruneStack, pruneMet>>
    /\ UNCHANGED <<diffVars, fetchVars, poolVars, pathVars, mergeVars, safeVars, limitVars, lateVars>>

\* await Promise.all(tasks): rejects with the first rejection; once every
\* closure has ended removeEmptyDirs(change) is called.
ReconAwaitAll ==
    /\ reconPc = "running"
    /\ \/ \E p \in RPaths : rtask[p] = "rejected"
       \/ \A p \in RPaths : rtask[p] \in {"none", "done"}
    /\ reconPc' = IF \E p \in RPaths : rtask[p] = "rejected" THEN "threw" ELSE "pruning"
    /\ pruneStack' = IF \E p \in RPaths : rtask[p] = "rejected" THEN <<>>
                     ELSE <<Frame(RootDir, "enter")>>
    /\ UNCHANGED <<reconScript, refTree, candStart, candTree, rtask, changedFiles, returned,
                   candDirs, pruneMet, gaveUp, doneOrder>>
    /\ UNCHANGED <<diffVars, fetchVars, poolVars, pathVars, mergeVars, safeVars, limitVars, lateVars>>

\* The stack after the innermost removeEmptyDirs call returned v; when the
\* outermost call returns, removeUnchangedFiles returns.
AfterReturn(v) ==
    /\ pruneStack' = PopWith(pruneStack, v)
    /\ reconPc' = IF Len(pruneStack) = 1 THEN "done" ELSE reconPc
    /\ returned' = IF Len(pruneStack) = 1 THEN ReturnOf(reconScript, changedFiles) ELSE returned

\* removeEmptyDirs(dir) lists the directory.  Without entries the directory
\* is removed and the call returns true; a missing directory returns true
\* from the catch block; any other error is rethrown by every enclosing
\* call and removeUnchangedFiles rejects.
PruneEnter(err) ==
    /\ Pruning
    /\ Top.pc = "enter"
    /\ LET d == Top.dir
           code == ReaddirCode(d, candDirs, err)
       IN IF code = "ok"
          THEN IF NoEntries(d, candDirs, candTree)
               THEN /\ candDirs' = Rmdir(d, candDirs, candTree)
                    /\ AfterReturn(EmptyDirResult)
                    /\ UNCHANGED pruneMet
               ELSE /\ pruneStack' = [pruneStack EXCEPT ![Len(pruneStack)] =
                           [dir |-> d, pc |-> "loop", todo |-> SubDirs(d, candDirs),
                            allEmpty |-> FilesIn(d, candTree) = {}]]
                    /\ UNCHANGED <<candDirs, reconPc, returned, pruneMet>>
          ELSE IF IsMissingCode(code)
          THEN /\ AfterReturn(TRUE)
               /\ pruneMet' = pruneMet \cup {[dir |-> d, code |-> code]}
               /\ UNCHANGED candDirs
          ELSE /\ pruneStack' = <<>>
               /\ reconPc' = "threw"
               /\ pruneMet' = pruneMet \cup {[dir |-> d, code |-> code]}
               /\ UNCHANGED <<candDirs, returned>>
    /\ UNCHANGED <<reconScript, refTree, candStart, candTree, rtask, changedFiles, gaveUp, doneOrder>>
    /\ UNCHANGED <<diffVars, fetchVars, poolVars, pathVars, mergeVars, safeVars, limitVars, lateVars>>

\* The for loop over the entries: the next sub-directory is visited; after
\* the last entry the directory is removed when every entry was an empty
\* directory, and the call returns.
PruneLoop ==
    /\ Pruning
    /\ Top.pc = "loop"
    /\ IF Top.todo # <<>>
       THEN /\ pruneStack' = Append([pruneStack EXCEPT ![Len(pruneStack)].todo = Tail(@)],
                                    Frame(Head(Top.todo), "enter"))
            /\ UNCHANGED <<candDirs, reconPc, returned>>
       ELSE IF Top.allEmpty
       THEN /\ candDirs' = Rmdir(Top.dir, candDirs, candTree)
            /\ AfterReturn(EmptyDirResult)
       ELSE /\ AfterReturn(FALSE)
            /\ UNCHANGED candDirs
    /\ UNCHANGED <<reconScript, refTree, candStart, candTree, rtask, changedFiles,
                   pruneMet, gaveUp, doneOrder>>
    /\ UNCHANGED <<diffVars, fetchVars, poolVars, pathVars, mergeVars, safeVars, limitVars, lateVars>>

\* Another pruning step removes an empty directory that a removeEmptyDirs
\* call has listed and not visited yet.
ConcurrentPrune(d) ==
    /\ Pruning
    /\ d \in candDirs
    /\ NoEntries(d, candDirs, candTree)
    /\ \E i \in DOMAIN pruneStack : d \in Range(pruneStack[i].todo)
    /\ candDirs' = candDirs \ {d}
    /\ UNCHANGED <<reconScript, refTree, candStart, candTree, rtask, changedFiles, reconPc,
                   returned, pruneStack, pruneMet, gaveUp, doneOrder>>
    /\ UNCHANGED <<diffVars, fetchVars, poolVars, pathVars, mergeVars, safeVars, limitVars, lateVars>>

NextRecon ==
    \/ StartRecon
    \/ \E p \in RPaths : ReconStart(p)
    \/ \E p \in RPaths, busyOld \in 0..MaxBusy, busyNew \in 0..MaxBusy : Hashed(p, busyOld, busyNew)
    \/ \E p \in RPaths, busy \in 0..MaxBusy : Deleted(p, busy)
    \/ ReconAwaitAll
    \/ \E err \in {"ok"} \cup ReaddirErrors : PruneEnter(err)
    \/ PruneLoop
    \/ \E d \in AllDirs : ConcurrentPrune(d)

(***************************************************************************)
(* safeRead and safeDelete, one fs call at a time.  Both run the same      *)
(* loop around fsp.readFile / fsp.unlink and differ in how they end.       *)
(***************************************************************************)
SafeOps == {"read", "delete"}
BusyCodes == {"EBUSY", "EPERM"}
OtherCodes == {"ENOENT"}
SAFE_WAIT_MS == 100

\* err.code === "EBUSY" || err.code === "EPERM"
IsBusyCode(code) == code \in BusyCodes

\* After the loop: safeRead throws a new Error, safeDelete warns and returns.
AfterLoop(op) == IF op = "read" THEN "failed" ELSE "warned"

InitSafe ==
    /\ safeOp \in SafeOps
    /\ safePc = "loop"
    /\ safeRetry = SAFE_RETRY
    /\ safeCodes = <<>>
    /\ safeWaits = <<>>

IdleSafe ==
    /\ safeOp = "read"
    /\ safePc = "idle"
    /\ safeRetry = SAFE_RETRY
    /\ safeCodes = <<>>
    /\ safeWaits = <<>>

\* One round of the loop: the fs call succeeds and the function returns, or
\* fails with a busy code, waits and counts down, or fails with another
\* code, which is rethrown.
SafeAttempt(code) ==
    /\ safePc = "loop"
    /\ LoopGoesOn(safeRetry)
    /\ safeCodes' = Append(safeCodes, code)
    /\ IF code = "ok"
       THEN /\ safePc' = "returned"
            /\ UNCHANGED <<safeRetry, safeWaits>>
       ELSE IF IsBusyCode(code)
       THEN /\ safeWaits' = Append(safeWaits, SAFE_WAIT_MS)
            /\ safeRetry' = safeRetry - 1
            /\ UNCHANGED safePc
       ELSE /\ safePc' = "rethrew"
            /\ UNCHANGED <<safeRetry, safeWaits>>
    /\ UNCHANGED <<safeOp, diffVars, fetchVars, poolVars, pathVars, mergeVars, reconVars, limitVars, lateVars>>

\* The loop condition fails: the statement after the loop runs.
SafeGiveUp ==
    /\ safePc = "loop"
    /\ ~LoopGoesOn(safeRetry)
    /\ safePc' = AfterLoop(safeOp)
    /\ UNCHANGED <<safeOp, safeRetry, safeCodes, safeWaits>>
    /\ UNCHANGED <<diffVars, fetchVars, poolVars, pathVars, mergeVars, reconVars, limitVars, lateVars>>

NextSafe ==
    \/ \E code \in {"ok"} \cup BusyCodes \cup OtherCodes : SafeAttempt(code)
    \/ SafeGiveUp

(***************************************************************************)
(* The limiter of removeUnchangedFiles: const limit = pLimit(5) is created *)
(* once, when the module is loaded, and every call wraps the closures of   *)
(* its candidate files in it.  Two calls are followed.                     *)
(***************************************************************************)
Calls == {1, 2}
FilesOfCall(c) == IF c = 1 THEN FirstCount ELSE SecondCount

\* newFiles.map(newPath => limit(...)): the closures of a call in order.
ClosuresOf(c) == [i \in 1..FilesOfCall(c) |-> [call |-> c, idx |-> i, st |-> "queued"]]

\* Faulty variant: a limiter per call.
ReconLimiterOfMutant(c) == c

\* Every call goes through the one `limit` of the module.
ReconLimiterOf(c) == "limit"

LimitRunning == {i \in DOMAIN limitQueue : limitQueue[i].st = "running"}
SameReconLimiter(i, j) ==
    ReconLimiterOf(limitQueue[i].call) = ReconLimiterOf(limitQueue[j].call)

InitLimit ==
    /\ callState = [c \in Calls |-> "idle"]
    /\ limitQueue = <<>>

IdleLimit ==
    /\ callState = [c \in Calls |-> "returned"]
    /\ limitQueue = <<>>

\* removeUnchangedFiles is called: its closures are handed to the limiter.
CallStarts(c) ==
    /\ callState[c] = "idle"
    /\ callState' = [callState EXCEPT ![c] = "waiting"]
    /\ limitQueue' = limitQueue \o ClosuresOf(c)
    /\ UNCHANGED <<diffVars, fetchVars, poolVars, pathVars, mergeVars, reconVars, safeVars, lateVars>>

\* The limiter starts the oldest queued closure while it runs fewer than
\* RECON_CONCURRENCY.
LimitStart(i) ==
    /\ limitQueue[i].st = "queued"
    /\ \A j \in DOMAIN limitQueue :
          (j < i /\ SameReconLimiter(i, j)) => limitQueue[j].st # "queued"
    /\ Cardinality({j \in LimitRunning : SameReconLimiter(i, j)}) < RECON_CONCURRENCY
    /\ limitQueue' = [limitQueue EXCEPT ![i].st = "running"]
    /\ UNCHANGED <<callState, diffVars, fetchVars, poolVars, pathVars, mergeVars, reconVars, safeVars, lateVars>>

\* The closure ends: the limiter's slot is released.
LimitSettle(i) ==
    /\ limitQueue[i].st = "running"
    /\ limitQueue' = [limitQueue EXCEPT ![i].st = "done"]
    /\ UNCHANGED <<callState, diffVars, fetchVars, poolVars, pathVars, mergeVars, reconVars, safeVars, lateVars>>

\* await Promise.all(tasks) of a call resolves.
CallReturns(c) ==
    /\ callState[c] = "waiting"
    /\ \A i \in DOMAIN limitQueue : limitQueue[i].call = c => limitQueue[i].st = "done"
    /\ callState' = [callState EXCEPT ![c] = "returned"]
    /\ UNCHANGED <<limitQueue, diffVars, fetchVars, poolVars, pathVars, mergeVars, reconVars, safeVars, lateVars>>

NextLimit ==
    \/ \E c \in Calls : CallStarts(c)
    \/ \E i \in DOMAIN limitQueue : LimitStart(i)
    \/ \E i \in DOMAIN limitQueue : LimitSettle(i)
    \/ \E c \in Calls : CallReturns(c)

(***************************************************************************)
(* The commands: main of index.ts, which runs the stages one after the     *)
(* other, and the main functions of compare.ts, downloadAssetBundleInfo.ts *)
(* and getAssets.ts, each around one stage function.  A stage function is   *)
(* followed from its call to its return or throw; what it does in between  *)
(* is the subject of the other sections.                                   *)
(***************************************************************************)
Commands == {"index", "compare", "downloadAB", "getAssets"}

\* The first stage function a command calls.
FirstCall(cmd) ==
    IF cmd = "index" THEN "downloadAB"
    ELSE IF cmd = "compare" THEN "compareVersions"
    ELSE IF cmd = "downloadAB" THEN "downloadAB"
    ELSE "downloadDiffAssets"

\* main of index.ts: the call that follows the return of `call`; "end" after
\* the last one.  removeUnchangedFiles is called when the export has the
\* change and change_old folders.
IndexAfterReturn(call, folders) ==
    IF call = "downloadAB" THEN "compareVersions"
    ELSE IF call = "downloadAB again" THEN "compareVersions again"
    ELSE IF call \in {"compareVersions", "compareVersions again"} THEN "downloadDiffAssets"
    ELSE IF call = "downloadDiffAssets" THEN "exportLatestAssets"
    ELSE IF call = "exportLatestAssets" THEN
        IF folders THEN "removeUnchangedFiles" ELSE "mergeAllSegmentedAcbFiles"
    ELSE IF call = "removeUnchangedFiles" THEN "mergeAllSegmentedAcbFiles"
    ELSE IF call = "mergeAllSegmentedAcbFiles" THEN "decodeLatestAssets"
    ELSE IF call = "decodeLatestAssets" THEN "flatFolder"
    ELSE "end"

\* main of index.ts: the one try/catch is around the first compareVersions
\* and asks for another version; every other throw leaves main.
IndexAfterThrow(call) ==
    IF call = "compareVersions" THEN "downloadAB again" ELSE "rejected"

\* What a stage function throws for.  compareVersions is called without a
\* target by index.ts, so the two target errors are those of the compare
\* command only.
ThrowReasons(cmd, call) ==
    IF call \in {"downloadAB", "downloadAB again"}
    THEN {"no template for the version", "no version in the url", "no history", "download failed"}
    ELSE IF call \in {"compareVersions", "compareVersions again"}
    THEN {"fewer than two snapshots"}
         \cup (IF cmd = "compare" THEN {"target not found", "target is the oldest"} ELSE {})
    ELSE {"error"}

\* The exit status after the stage function of a command threw: compare.ts
\* and downloadAssetBundleInfo.ts print the error in a catch block and main
\* returns; getAssets.ts calls process.exit(1) in main().catch; index.ts
\* leaves the rejection of main() unhandled, which ends node with status 1.
CaughtExit(cmd) == IF cmd \in {"compare", "downloadAB"} THEN 0 ELSE 1

\* The stage of the pipeline a call belongs to.
StageOf(call) ==
    IF call \in {"downloadAB", "downloadAB again"} THEN "manifest"
    ELSE IF call \in {"compareVersions", "compareVersions again"} THEN "diff"
    ELSE IF call = "downloadDiffAssets" THEN "fetch"
    ELSE IF call = "exportLatestAssets" THEN "extraction"
    ELSE IF call = "removeUnchangedFiles" THEN "reconciliation"
    ELSE IF call = "mergeAllSegmentedAcbFiles" THEN "reassembly"
    ELSE IF call = "decodeLatestAssets" THEN "decode"
    ELSE "flatten"

Event(call, ev, why) == [stage |-> StageOf(call), ev |-> ev, why |-> why]
NoExit == -1

InitCli ==
    /\ cliCmd \in Commands
    /\ hasFolders \in BOOLEAN
    /\ cliPc = "asked"
    /\ cliCall = "none"
    /\ cliLog = <<>>
    /\ exitCode = NoExit

IdleCli ==
    /\ cliCmd = "index"
    /\ hasFolders = FALSE
    /\ cliPc = "idle"
    /\ cliCall = "none"
    /\ cliLog = <<>>
    /\ exitCode = NoExit

\* The answer to the question is read and the first stage function is
\* called (getAssets.ts asks nothing).
CliBegin ==
    /\ cliPc = "asked"
    /\ cliPc' = "calling"
    /\ cliCall' = FirstCall(cliCmd)
    /\ cliLog' = Append(cliLog, Event(FirstCall(cliCmd), "start", ""))
    /\ UNCHANGED <<cliCmd, hasFolders, exitCode>>
    /\ UNCHANGED <<earlyVars, selVars, abVars, flatVars>>

\* The awaited stage function returns: index.ts calls the next one; after
\* the last one, and in a stage command, main returns and the process ends
\* with status 0.
CliReturn ==
    /\ cliPc = "calling"
    /\ LET next == IF cliCmd = "index" THEN IndexAfterReturn(cliCall, hasFolders) ELSE "end"
           ended == Append(cliLog, Event(cliCall, "end", ""))
       IN IF next = "end"
          THEN /\ cliPc' = "exited"
               /\ exitCode' = 0
               /\ cliLog' = ended
               /\ UNCHANGED cliCall
          ELSE /\ cliCall' = next
               /\ cliLog' = Append(ended, Event(next, "start", ""))
               /\ UNCHANGED <<cliPc, exitCode>>
    /\ UNCHANGED <<cliCmd, hasFolders>>
    /\ UNCHANGED <<earlyVars, selVars, abVars, flatVars>>

\* The awaited stage function throws.
CliThrow(why) ==
    /\ cliPc = "calling"
    /\ why \in ThrowReasons(cliCmd, cliCall)
    /\ LET next == IF cliCmd = "index" THEN IndexAfterThrow(cliCall) ELSE "rejected"
           thrown == Append(cliLog, Event(cliCall, "throw", why))
       IN IF next = "rejected"
          THEN /\ cliPc' = "exited"
               /\ exitCode' = CaughtExit(cliCmd)
               /\ cliLog' = thrown
               /\ UNCHANGED cliCall
          ELSE /\ cliCall' = next
               /\ cliLog' = Append(thrown, Event(next, "start", ""))
               /\ UNCHANGED <<cliPc, exitCode>>
    /\ UNCHANGED <<cliCmd, hasFolders>>
    /\ UNCHANGED <<earlyVars, selVars, abVars, flatVars>>

AllThrowReasons == UNION {ThrowReasons(cmd, call) : cmd \in Commands,
                            call \in {"downloadAB", "compareVersions", "downloadDiffAssets"}}

NextCli ==
    \/ CliBegin
    \/ CliReturn
    \/ \E why \in AllThrowReasons : CliThrow(why)

(***************************************************************************)
(* downloadAB and the earlier main of the manifest download: the version  *)
(* registry AssetBundleInfoUrl.json and the snapshot files.  A version is  *)
(* its four numbers; its string is what localeCompare sees.                *)
(***************************************************************************)
LastParts == {70 + 10 * i : i \in 1..NLastParts}
ABVersions == {<<9, 3, 0, l>> : l \in LastParts} \cup {<<9, 4, 0, 80>>}
NoRelease == <<>>
ABScripts == {"current", "urlOnly", "earlier"}

\* A URL: the version after /Release/ and its t= parameter ("none" when it
\* has none, "old" for one of an earlier day, "now" for one made in this run).
Url(release, stamp) == [release |-> release, stamp |-> stamp]
NoUrl == Url(NoRelease, "none")

\* What the user types: nothing, a version number, or a URL.
ABInputs ==
    {[kind |-> "empty", ver |-> NoRelease, stamp |-> "none"]}
    \cup {[kind |-> "version", ver |-> v, stamp |-> "none"] : v \in ABVersions}
    \cup {[kind |-> "url", ver |-> v, stamp |-> "none"] : v \in ABVersions}
    \cup {[kind |-> "url", ver |-> NoRelease, stamp |-> "old"]}

\* extractVersion: the version after /Release/, or null.
extractVersion(url) == url.release

\* mainVersion: the first three components.
mainVersion(version) == SubSeq(version, 1, 3)

\* ensureTimestamp: a URL that has t= is returned as it is.
ensureTimestamp(url) == IF url.stamp # "none" THEN url ELSE Url(url.release, "now")

\* incrementVersion: +20 after a last component that ends in 90 (the
\* version of lines 37-46), +10 otherwise and in the two other versions.
incrementVersion(scr, version) ==
    LET last == version[4]
    IN [version EXCEPT ![4] = last + (IF scr = "current" /\ last % 100 = 90 THEN 20 ELSE 10)]

\* The decimal digits of a number, and the string of a version with -1 for
\* the full stop, which collates before every digit.
RECURSIVE DigitsOf(_)
DigitsOf(n) == IF n < 10 THEN <<n>> ELSE DigitsOf(n \div 10) \o <<n % 10>>

VersionString(v) ==
    DigitsOf(v[1]) \o <<-1>> \o DigitsOf(v[2]) \o <<-1>> \o DigitsOf(v[3]) \o <<-1>> \o DigitsOf(v[4])

\* a.localeCompare(b) on two such strings: negative, 0 or positive.
RECURSIVE StringCompare(_, _)
StringCompare(a, b) ==
    IF a = <<>> /\ b = <<>> THEN 0
    ELSE IF a = <<>> THEN -1
    ELSE IF b = <<>> THEN 1
    ELSE IF Head(a) # Head(b) THEN Head(a) - Head(b)
    ELSE StringCompare(Tail(a), Tail(b))

localeCompare(a, b) == StringCompare(VersionString(a), VersionString(b))

\* entries.sort((a, b) => b[0].localeCompare(a[0]))
RECURSIVE InsertEntry(_, _)
InsertEntry(e, srt) ==
    IF srt = <<>> THEN <<e>>
    ELSE IF localeCompare(Head(srt).ver, e.ver) < 0
         THEN <<e>> \o srt
         ELSE <<Head(srt)>> \o InsertEntry(e, Tail(srt))

RECURSIVE SortEntries(_)
SortEntries(entries) ==
    IF entries = <<>> THEN <<>>
    ELSE InsertEntry(entries[Len(entries)], SortEntries(SubSeq(entries, 1, Len(entries) - 1)))

\* urlMap[version] = url: the value of an existing key is replaced in
\* place, a new key goes to the end.
SetEntry(urlMap, version, url) ==
    IF \E i \in DOMAIN urlMap : urlMap[i].ver = version
    THEN [i \in DOMAIN urlMap |->
            IF urlMap[i].ver = version THEN [ver |-> version, url |-> url] ELSE urlMap[i]]
    ELSE Append(urlMap, [ver |-> version, url |-> url])

\* findTemplateUrl: the URL of the first key with the main version of
\* `version`, or null.
findTemplateUrl(version, urlMap) ==
    IF \E i \in DOMAIN urlMap : mainVersion(urlMap[i].ver) = mainVersion(version)
    THEN urlMap[CHOOSE i \in DOMAIN urlMap :
                    /\ mainVersion(urlMap[i].ver) = mainVersion(version)
                    /\ \A j \in DOMAIN urlMap :
                          mainVersion(urlMap[j].ver) = mainVersion(version) => i <= j].url
    ELSE NoUrl

\* The version and URL a call settles on, or the error it stops with.
Resolved(version, url) == [err |-> "none", version |-> version, url |-> url]
Refused(why) == [err |-> why, version |-> NoRelease, url |-> NoUrl]

Resolve(scr, input, urlMap) ==
    IF input.kind = "empty"
    THEN IF urlMap = <<>> THEN Refused("no history")
         ELSE Resolved(incrementVersion(scr, urlMap[1].ver),
                       ensureTimestamp(Url(incrementVersion(scr, urlMap[1].ver), "none")))
    ELSE IF input.kind = "version" /\ scr = "current"
    THEN IF findTemplateUrl(input.ver, urlMap) = NoUrl THEN Refused("no template")
         ELSE Resolved(input.ver, ensureTimestamp(Url(input.ver, "none")))
    ELSE LET url == ensureTimestamp(Url(IF input.kind = "url" THEN input.ver ELSE NoRelease, input.stamp))
         IN IF extractVersion(url) = NoRelease THEN Refused("no version in the url")
            ELSE Resolved(extractVersion(url), url)

\* Faulty variant: the registry is written at the end of every call.
RewritesRegistryMutant(downloaded) == TRUE

\* if (downloaded) { ... writeFile(JSON_PATH, ...) }
RewritesRegistry(downloaded) == downloaded

\* The registry file after the call: the new entry set and the entries
\* sorted, when the call rewrites it.
RegistryAfter(urlMap, version, url, downloaded) ==
    IF RewritesRegistry(downloaded) THEN SortEntries(SetEntry(urlMap, version, url)) ELSE urlMap

NoResult == [version |-> NoRelease, filePath |-> NoRelease, url |-> NoUrl]
Seeds == {<<>>} \cup {<<[ver |-> v, url |-> Url(v, "old")]>> : v \in ABVersions}

InitAB ==
    /\ abScript \in ABScripts
    /\ registry \in Seeds
    /\ snapshots \in {{}} \cup {{v} : v \in ABVersions}
    /\ abPc = "idle"
    /\ abInput = [kind |-> "empty", ver |-> NoRelease, stamp |-> "none"]
    /\ abTarget = Refused("none")
    /\ abRequests = 0
    /\ abBefore = [registry |-> registry, snapshots |-> snapshots]
    /\ abResult = NoResult

IdleAB ==
    /\ abScript = "current"
    /\ registry = <<>>
    /\ snapshots = {}
    /\ abPc = "off"
    /\ abInput = [kind |-> "empty", ver |-> NoRelease, stamp |-> "none"]
    /\ abTarget = Refused("none")
    /\ abRequests = 0
    /\ abBefore = [registry |-> <<>>, snapshots |-> {}]
    /\ abResult = NoResult

\* A call, from the read of the registry to the GET, or to its end when it
\* throws before or finds the snapshot file (fs.access) and skips the GET.
\* The earlier main has no such test and always sends the GET.
ABCall(input) ==
    /\ abPc \in {"idle", "done", "threw"}
    /\ LET target == Resolve(abScript, input, registry)
       IN /\ target.err = "none" => target.version \in ABVersions
          /\ abInput' = input
          /\ abTarget' = target
          /\ abBefore' = [registry |-> registry, snapshots |-> snapshots]
          /\ IF target.err # "none"
             THEN /\ abPc' = "threw"
                  /\ abRequests' = 0
                  /\ abResult' = NoResult
                  /\ UNCHANGED registry
             ELSE IF abScript # "earlier" /\ target.version \in snapshots
             THEN /\ abPc' = "done"
                  /\ abRequests' = 0
                  /\ registry' = RegistryAfter(registry, target.version, target.url, FALSE)
                  /\ abResult' = [version |-> target.version, filePath |-> target.version,
                                  url |-> target.url]
             ELSE /\ abPc' = "requesting"
                  /\ abRequests' = 1
                  /\ abResult' = NoResult
                  /\ UNCHANGED registry
    /\ UNCHANGED <<abScript, snapshots>>
    /\ UNCHANGED <<earlyVars, cliVars, selVars, flatVars>>

\* The GET answers and the body is written.  downloadAB stores it as the
\* snapshot and rewrites the registry; the earlier main does so unless a
\* file of the version has the same MD5.
ABGetOk(sameContent) ==
    /\ abPc = "requesting"
    /\ sameContent => (abScript = "earlier" /\ abTarget.version \in snapshots)
    /\ abPc' = "done"
    /\ IF sameContent
       THEN UNCHANGED <<registry, snapshots, abResult>>
       ELSE /\ snapshots' = snapshots \cup {abTarget.version}
            /\ registry' = RegistryAfter(registry, abTarget.version, abTarget.url, TRUE)
            /\ abResult' = IF abScript = "earlier" THEN NoResult
                           ELSE [version |-> abTarget.version, filePath |-> abTarget.version,
                                 url |-> abTarget.url]
    /\ UNCHANGED <<abScript, abInput, abTarget, abRequests, abBefore>>
    /\ UNCHANGED <<earlyVars, cliVars, selVars, flatVars>>

\* The GET fails (or times out): downloadAB throws, the earlier main
\* prints the error and returns.
ABGetFails ==
    /\ abPc = "requesting"
    /\ abPc' = "threw"
    /\ UNCHANGED <<abScript, registry, snapshots, abInput, abTarget, abRequests, abBefore, abResult>>
    /\ UNCHANGED <<earlyVars, cliVars, selVars, flatVars>>

NextAB ==
    \/ \E input \in ABInputs : ABCall(input)
    \/ \E sameContent \in BOOLEAN : ABGetOk(sameContent)
    \/ ABGetFails

(***************************************************************************)
(* compareVersions: the choice of the two snapshot files.  A version in a  *)
(* file name is its four components, each the sequence of its decimal      *)
(* digits, so that "09" and "9" are two strings with one number.           *)
(***************************************************************************)
Components == {<<9>>, <<1, 0>>, <<0, 9>>}
Versions == {<< <<9>>, <<3>>, c, d >> : c \in Components, d \in Components}

\* A file of the directory whose name is not that of a snapshot.
OtherFile == << <<0>> >>
NoTarget == <<>>
NoVersion == << <<>> >>

\* extractVersionFromFilename: the version in the name, or null.
extractVersionFromFilename(name) == IF name \in Versions THEN name ELSE NoVersion

\* Number(n) of a string of digits.
RECURSIVE NumberOf(_)
NumberOf(digits) ==
    IF digits = <<>> THEN 0
    ELSE NumberOf(SubSeq(digits, 1, Len(digits) - 1)) * 10 + digits[Len(digits)]

\* versionKey: v.baseVer.split(".").map(n => Number(n))
versionKey(v) == [i \in DOMAIN v |-> NumberOf(v[i])]

\* formatVersion: extraNum is always 1, so the version string itself.
formatVersion(v) == v

\* Faulty variant: the keys are compared as the strings of their numbers.
KeyCompareMutant(a, b) == StringCompare(VersionString(a), VersionString(b))

\* The comparator of versionFiles.sort: the difference of the first pair
\* of components that differ, 0 when none does.
RECURSIVE KeyCompare(_, _)
KeyCompare(a, b) ==
    IF a = <<>> \/ b = <<>> THEN 0
    ELSE IF Head(a) # Head(b) THEN Head(a) - Head(b)
    ELSE KeyCompare(Tail(a), Tail(b))

\* Array.prototype.sort is stable: a file goes behind the files it does
\* not compare lower than.
RECURSIVE InsertVersion(_, _)
InsertVersion(f, srt) ==
    IF srt = <<>> THEN <<f>>
    ELSE IF KeyCompare(versionKey(f), versionKey(Head(srt))) < 0
         THEN <<f>> \o srt
         ELSE <<Head(srt)>> \o InsertVersion(f, Tail(srt))

RECURSIVE SortVersions(_)
SortVersions(fs) ==
    IF fs = <<>> THEN <<>>
    ELSE InsertVersion(fs[Len(fs)], SortVersions(SubSeq(fs, 1, Len(fs) - 1)))

\* versionFiles.findIndex(v => v.formattedVersion === targetVersion),
\* counted from 1; 0 for -1.
FindIndex(srt, target) ==
    IF \E i \in DOMAIN srt : formatVersion(srt[i]) = target
    THEN CHOOSE i \in DOMAIN srt :
            /\ formatVersion(srt[i]) = target
            /\ \A j \in DOMAIN srt : formatVersion(srt[j]) = target => i <= j
    ELSE 0

DirListings ==
    {fs \in SeqsUpTo(Versions \cup {OtherFile}, MaxVerFiles) :
        \A i, j \in DOMAIN fs : fs[i] = fs[j] => i = j}

NoPair == [old |-> NoVersion, new |-> NoVersion]

InitSelect ==
    /\ filesInDir \in DirListings
    /\ targetVersion \in Versions \cup {NoTarget}
    /\ selPc = "idle"
    /\ selected = NoPair
    /\ diffWritten = FALSE

IdleSelect ==
    /\ filesInDir = <<>>
    /\ targetVersion = NoTarget
    /\ selPc = "off"
    /\ selected = NoPair
    /\ diffWritten = FALSE

\* compareVersions: the snapshot files are filtered and sorted, the pair is
\* chosen or an Error thrown, the two maps are read and the diff record is
\* written.
SelectVersions ==
    /\ selPc = "idle"
    /\ LET versionFiles == SortVersions(SelectSeq(filesInDir,
                               LAMBDA f : extractVersionFromFilename(f) # NoVersion))
           idx == FindIndex(versionFiles, targetVersion)
       IN IF Len(versionFiles) < 2
          THEN /\ selPc' = "too few"
               /\ UNCHANGED <<selected, diffWritten>>
          ELSE IF targetVersion = NoTarget
          THEN /\ selected' = [old |-> versionFiles[Len(versionFiles) - 1],
                               new |-> versionFiles[Len(versionFiles)]]
               /\ selPc' = "done"
               /\ diffWritten' = TRUE
          ELSE IF idx = 0
          THEN /\ selPc' = "not found"
               /\ UNCHANGED <<selected, diffWritten>>
          ELSE IF idx = 1
          THEN /\ selPc' = "no older"
               /\ UNCHANGED <<selected, diffWritten>>
          ELSE /\ selected' = [old |-> versionFiles[idx - 1], new |-> versionFiles[idx]]
               /\ selPc' = "done"
               /\ diffWritten' = TRUE
    /\ UNCHANGED <<filesInDir, targetVersion>>
    /\ UNCHANGED <<earlyVars, cliVars, abVars, flatVars>>

NextSelect == SelectVersions

(***************************************************************************)
(* flatFolder: a directory tree as the set of its entries.  A path is the  *)
(* sequence of its names and a name the sequence of the pieces that the    *)
(* full stops (and the _n of a clash) separate, so that the name a         *)
(* flattening makes, oldName + "." + childName, is the concatenation.      *)
(***************************************************************************)
TmpName == <<"_tmp_flat">>
RootName == <<"r">>
RootPath == <<RootName>>
DirNames == {<<"a">>, <<"b">>, TmpName}
FileNames == {<<"f">>, TmpName}
Suffixes == <<"_1", "_2", "_3">>

Entry(p, kind) == [path |-> p, kind |-> kind, id |-> <<>>]
Under(dir, p) == Len(p) > Len(dir) /\ SubSeq(p, 1, Len(dir)) = dir
ChildrenOf(fs, dir) == {e \in fs : Len(e.path) = Len(dir) + 1 /\ Under(dir, e.path)}
NameOf(e) == e.path[Len(e.path)]
Dirname(p) == SubSeq(p, 1, Len(p) - 1)
FilesOf(fs, dir) == {e \in ChildrenOf(fs, dir) : e.kind # "dir"}
DirsOf(fs, dir) == {e \in ChildrenOf(fs, dir) : e.kind = "dir"}

\* exists: fs.access succeeds.
exists(fs, p) == \E e \in fs : e.path = p

\* What stands at a path and everything below it, put at another path.
MoveTree(fs, src, dest) ==
    {IF e.path = src \/ Under(src, e.path)
     THEN [e EXCEPT !.path = dest \o SubSeq(e.path, Len(src) + 1, Len(e.path))]
     ELSE e : e \in fs}

Done(fs) == [fs |-> fs, err |-> "none"]
Thrown(fs, code) == [fs |-> fs, err |-> code]

\* fs.rename(src, dest): nothing to do for one path; a file replaces a
\* file, a directory replaces an empty directory; the other clashes fail.
Rename(fs, src, dest) ==
    LET s == CHOOSE e \in fs : e.path = src
        d == CHOOSE e \in fs : e.path = dest
    IN IF src = dest THEN Done(fs)
       ELSE IF ~exists(fs, dest) THEN Done(MoveTree(fs, src, dest))
       ELSE IF s.kind # "dir" /\ d.kind = "dir" THEN Thrown(fs, "EISDIR")
       ELSE IF s.kind = "dir" /\ d.kind # "dir" THEN Thrown(fs, "ENOTDIR")
       ELSE IF s.kind = "dir" /\ ChildrenOf(fs, dest) # {} THEN Thrown(fs, "ENOTEMPTY")
       ELSE Done(MoveTree(fs \ {d}, src, dest))

\* for (const entry of entries) await fs.rename(from/name, to/name): the
\* first rename that fails ends the loop.
RECURSIVE RenameAll(_, _, _, _)
RenameAll(fs, names, from, to) ==
    IF names = <<>> THEN Done(fs)
    ELSE LET r == Rename(fs, from \o <<Head(names)>>, to \o <<Head(names)>>)
         IN IF r.err # "none" THEN r ELSE RenameAll(r.fs, Tail(names), from, to)

\* fs.rmdir
rmdir(fs, p) ==
    IF ~exists(fs, p) THEN Thrown(fs, "ENOENT")
    ELSE IF ChildrenOf(fs, p) # {} THEN Thrown(fs, "ENOTEMPTY")
    ELSE Done({e \in fs : e.path # p})

\* fs.mkdir(p, { recursive: true }): no error for a directory that exists.
mkdir(fs, p) == IF exists(fs, p) THEN fs ELSE fs \cup {Entry(p, "dir")}

\* The orders readdir may list a set of entries in.
Listings(entries) ==
    LET names == {NameOf(e) : e \in entries}
    IN {s \in [1..Cardinality(names) -> names] : \A i, j \in DOMAIN s : s[i] = s[j] => i = j}

\* The new path of the flattened directory: oldName.childName beside the
\* old one, with _1, _2, ... while the path exists.
NewRootDir(fs, rootDir, childName) ==
    LET newFolderName == rootDir[Len(rootDir)] \o childName
        free(n) == ~exists(fs, Dirname(rootDir) \o <<newFolderName \o <<Suffixes[n]>>>>)
    IN IF ~exists(fs, Dirname(rootDir) \o <<newFolderName>>)
       THEN Dirname(rootDir) \o <<newFolderName>>
       ELSE Dirname(rootDir) \o
            <<newFolderName \o <<Suffixes[CHOOSE n \in DOMAIN Suffixes :
                                    free(n) /\ \A k \in DOMAIN Suffixes : free(k) => n <= k]>>>>

\* Lines 34-93: the one subdirectory of rootDir is emptied into
\* rootDir/_tmp_flat and removed, _tmp_flat is emptied into rootDir (in the
\* order `back` of its listing) and removed, and rootDir is moved to its
\* new name.  The result has the tree, the error thrown if any, and the
\* directory the loop goes on with.
Flatten(fs, rootDir, back) ==
    LET childDir == CHOOSE e \in DirsOf(fs, rootDir) : TRUE
        childPath == childDir.path
        childEntries == CHOOSE s \in Listings(ChildrenOf(fs, childPath)) : TRUE
        tmpDir == rootDir \o <<TmpName>>
        s1 == RenameAll(mkdir(fs, tmpDir), childEntries, childPath, tmpDir)
        s2 == IF s1.err # "none" THEN s1 ELSE rmdir(s1.fs, childPath)
        s3 == IF s2.err # "none" THEN s2
              ELSE IF ~exists(s2.fs, tmpDir) THEN Thrown(s2.fs, "ENOENT")
              ELSE RenameAll(s2.fs, back, tmpDir, rootDir)
        s4 == IF s3.err # "none" THEN s3 ELSE rmdir(s3.fs, tmpDir)
        newRootDir == NewRootDir(s4.fs, rootDir, NameOf(childDir))
    IN IF s4.err # "none"
       THEN [fs |-> s4.fs, err |-> s4.err, dir |-> rootDir]
       ELSE [fs |-> MoveTree(s4.fs, rootDir, newRootDir), err |-> "none", dir |-> newRootDir]

\* The entries that are in _tmp_flat when it is listed (line 56).
TmpEntries(fs, rootDir) ==
    LET childPath == (CHOOSE e \in DirsOf(fs, rootDir) : TRUE).path
    IN IF childPath = rootDir \o <<TmpName>> THEN ChildrenOf(fs, childPath)
       ELSE {[e EXCEPT !.path = rootDir \o <<TmpName, NameOf(e)>>] : e \in ChildrenOf(fs, childPath)}

Call(dir) == [dir |-> dir, todo |-> <<>>, listed |-> FALSE]
Beside == {{}, {Entry(<<RootName \o <<"a">>>>, "dir")},
           {Entry(<<RootName \o <<"a">>>>, "dir"), Entry(<<RootName \o <<"a", "_1">>>>, "dir")}}

InitFlat ==
    /\ flatTree \in {b \cup {Entry(RootPath, "dir")} : b \in Beside}
    /\ flatPc = "filling"
    /\ flatStack = <<>>
    /\ original = {}
    /\ flatErr = "none"

IdleFlat ==
    /\ flatTree = {}
    /\ flatPc = "off"
    /\ flatStack = <<>>
    /\ original = {}
    /\ flatErr = "none"

\* Before the run: a file or a directory is put into a directory of the
\* flatTree under rootDir.
Fill(dir, name, kind) ==
    /\ flatPc = "filling"
    /\ Cardinality({e \in flatTree : Under(RootPath, e.path)}) < MaxEntries
    /\ Entry(dir, "dir") \in flatTree
    /\ dir = RootPath \/ Under(RootPath, dir)
    /\ name \in (IF kind = "dir" THEN DirNames ELSE FileNames)
    /\ ~exists(flatTree, dir \o <<name>>)
    /\ flatTree' = flatTree \cup {Entry(dir \o <<name>>, kind)}
    /\ UNCHANGED <<flatPc, flatStack, original, flatErr>>
    /\ UNCHANGED <<earlyVars, cliVars, selVars, abVars>>

\* flatFolder(rootDir) is called; each file is known by its place from now.
FlatBegin ==
    /\ flatPc = "filling"
    /\ flatPc' = "running"
    /\ flatStack' = <<Call(RootPath)>>
    /\ flatTree' = {IF e.kind = "dir" THEN e ELSE [e EXCEPT !.id = e.path] : e \in flatTree}
    /\ original' = {e.path : e \in {x \in flatTree : x.kind # "dir"}}
    /\ UNCHANGED flatErr
    /\ UNCHANGED <<earlyVars, cliVars, selVars, abVars>>

Return ==
    IF Len(flatStack) = 1
    THEN flatPc' = "returned" /\ flatStack' = <<>>
    ELSE flatPc' = flatPc /\ flatStack' = SubSeq(flatStack, 1, Len(flatStack) - 1)

\* One pass of the while loop in the innermost call: the directory is
\* listed; without subdirectories the call returns, with one and no file
\* it is flattened and the loop goes on, otherwise the subdirectories are
\* the calls to make.
FlatLoop ==
    /\ flatPc = "running"
    /\ LET top == flatStack[Len(flatStack)]
           files == FilesOf(flatTree, top.dir)
           dirs == DirsOf(flatTree, top.dir)
       IN /\ ~top.listed
          /\ IF dirs = {}
             THEN Return /\ UNCHANGED <<flatTree, flatErr>>
             ELSE IF Cardinality(dirs) = 1 /\ files = {}
             THEN \E back \in Listings(TmpEntries(flatTree, top.dir)) :
                     LET r == Flatten(flatTree, top.dir, back)
                     IN /\ flatTree' = r.fs
                        /\ flatErr' = r.err
                        /\ IF r.err # "none"
                           THEN flatPc' = "threw" /\ flatStack' = <<>>
                           ELSE /\ flatPc' = flatPc
                                /\ flatStack' = [flatStack EXCEPT ![Len(flatStack)] = Call(r.dir)]
             ELSE \E todo \in Listings(dirs) :
                     /\ flatStack' = [flatStack EXCEPT
                                        ![Len(flatStack)] = [top EXCEPT !.todo = todo, !.listed = TRUE]]
                     /\ UNCHANGED <<flatTree, flatPc, flatErr>>
    /\ UNCHANGED original
    /\ UNCHANGED <<earlyVars, cliVars, selVars, abVars>>

\* for (const dir of dirs) await flatFolder(subPath): the next call, or
\* the return after the last one.
FlatRecurse ==
    /\ flatPc = "running"
    /\ LET top == flatStack[Len(flatStack)]
       IN /\ top.listed
          /\ IF top.todo = <<>>
             THEN Return
             ELSE /\ flatStack' = Append([flatStack EXCEPT ![Len(flatStack)] =
                                            [top EXCEPT !.todo = Tail(top.todo)]],
                                         Call(top.dir \o <<Head(top.todo)>>))
                  /\ UNCHANGED flatPc
    /\ UNCHANGED <<flatTree, original, flatErr>>
    /\ UNCHANGED <<earlyVars, cliVars, selVars, abVars>>

NextFlat ==
    \/ \E dir \in {e.path : e \in flatTree}, name \in DirNames \cup FileNames, kind \in {"dir", "file"} :
          Fill(dir, name, kind)
    \/ FlatBegin
    \/ FlatLoop
    \/ FlatRecurse

(***************************************************************************)
(* Specifications.                                                         *)
(***************************************************************************)
IdleLast == IdleCli /\ IdleAB /\ IdleSelect /\ IdleFlat
IdleLater == IdlePath /\ IdleMerge /\ IdleRecon /\ IdleSafe /\ IdleLimit /\ IdleLast
IdleEarly == IdleDiff /\ IdleFetch /\ IdlePool /\ IdlePath /\ IdleMerge /\ IdleRecon /\ IdleSafe /\ IdleLimit
Init == InitFetch /\ IdleDiff /\ IdlePool /\ IdleLater
Next == NextFetch
Spec == Init /\ [][Next]_vars

InitSpecDiff == InitDiff /\ IdleFetch /\ IdlePool /\ IdleLater
SpecDiff == InitSpecDiff /\ [][NextDiff]_vars

InitSpecPool == InitPool /\ IdleDiff /\ IdleFetch /\ IdleLater
SpecPool == InitSpecPool /\ [][NextPool]_vars

InitSpecPath == InitPath /\ IdleDiff /\ IdleFetch /\ IdlePool /\ IdleMerge /\ IdleRecon /\ IdleSafe /\ IdleLimit /\ IdleLast
SpecPath == InitSpecPath /\ [][NextPath]_vars

InitSpecRecon == InitRecon /\ IdleDiff /\ IdleFetch /\ IdlePool /\ IdlePath /\ IdleMerge /\ IdleSafe /\ IdleLimit /\ IdleLast
SpecRecon == InitSpecRecon /\ [][NextRecon]_vars

InitSpecMerge == InitMerge /\ IdleDiff /\ IdleFetch /\ IdlePool /\ IdlePath /\ IdleRecon /\ IdleSafe /\ IdleLimit /\ IdleLast
SpecMerge == InitSpecMerge /\ [][NextMerge]_vars

InitSpecSafe == InitSafe /\ IdleDiff /\ IdleFetch /\ IdlePool /\ IdlePath /\ IdleMerge /\ IdleRecon /\ IdleLimit /\ IdleLast
SpecSafe == InitSpecSafe /\ [][NextSafe]_vars

InitSpecLimit == InitLimit /\ IdleDiff /\ IdleFetch /\ IdlePool /\ IdlePath /\ IdleMerge /\ IdleRecon /\ IdleSafe /\ IdleLast
SpecLimit == InitSpecLimit /\ [][NextLimit]_vars

InitSpecCli == InitCli /\ IdleEarly /\ IdleAB /\ IdleSelect /\ IdleFlat
SpecCli == InitSpecCli /\ [][NextCli]_vars

InitSpecAB == InitAB /\ IdleEarly /\ IdleCli /\ IdleSelect /\ IdleFlat
SpecAB == InitSpecAB /\ [][NextAB]_vars

InitSpecSelect == InitSelect /\ IdleEarly /\ IdleCli /\ IdleAB /\ IdleFlat
SpecSelect == InitSpecSelect /\ [][NextSelect]_vars

InitSpecFlat == InitFlat /\ IdleEarly /\ IdleCli /\ IdleAB /\ IdleSelect
SpecFlat == InitSpecFlat /\ [][NextFlat]_vars

\* The fetcher when every step that can be taken is taken in the end: a GET
\* responds or fails, a timer fires, a stream event is delivered.
SpecFair == Init /\ [][Next]_vars /\ WF_vars(Next)

(***************************************************************************)
(* Properties.                                                             *)
(***************************************************************************)
KeySet(m) == Range(MapKeys(m))
NoDuplicates(arr) == Cardinality(Range(arr)) = Len(arr)

\* C1: once the diff is computed, a path is in `added` exactly when it is a
\* key of the new manifest and not of the old one, and in `changed` exactly
\* when it is a key of both with different hashes; the two are disjoint and
\* neither holds a path twice.
C1_DiffCorrect ==
    diffBy # "none" =>
        LET oldMap == readFileToAssetMap(oldLines)
            newMap == readFileToAssetMap(newLines)
        IN /\ Range(added) = KeySet(newMap) \ KeySet(oldMap)
           /\ Range(changed) =
                 {p \in KeySet(newMap) \cap KeySet(oldMap) : MapGet(newMap, p) # MapGet(oldMap, p)}
           /\ Range(added) \cap Range(changed) = {}
           /\ NoDuplicates(added)
           /\ NoDuplicates(changed)

\* compareVersions produced a diff with an added and a changed path.
C1_Witness ==
    /\ diffBy = "compareVersions"
    /\ Len(added) = 1
    /\ Len(changed) = 1

Returned(t) == task[t].pc = "done"
Succeeded(t) == Returned(t) /\ task[t].result = "true"
Failed(t) == Returned(t) /\ task[t].result = "false"
\* An attempt of t has failed and nothing has been done since.
AttemptFailed(t) == task[t].last # <<>>

\* C2 (as claimed): whenever downloadFile of getAssets.ts has reported
\* success, by a transfer or by the skip check, in any run, the file at the
\* destination holds the complete body.
C2_SuccessMeansComplete ==
    script = "getAssets" => \A t \in Tasks : Succeeded(t) => IsComplete(disk[t])

\* C3 (as claimed): after a failed attempt no partially written file is at
\* the final destination path.
C3_NoPartialAfterFailure ==
    \A t \in Tasks : AttemptFailed(t) => ~IsPartial(disk[t])

\* C4 (as claimed): a downloadFile call that finds its destination present
\* issues no GET, leaves the file as it was and returns success.
C4_SkipIfPresent ==
    [][\A t \in Tasks :
          (task[t].pc = "queued" /\ task'[t].pc # "queued" /\ disk[t].exists) =>
              /\ task'[t].pc = "done"
              /\ task'[t].result = "true"
              /\ task'[t].gets = 0
              /\ disk'[t] = disk[t]]_vars

\* C5 (as claimed): in a second run of downloadDiffAssets on the same
\* destination root no task issues a GET and every task that returned
\* reports success, whatever the first run's outcomes were.
C5_SecondRunNoGet ==
    (script = "getAssets" /\ prevRun # "none") =>
        \A t \in Tasks : task[t].gets = 0 /\ (Returned(t) => task[t].result = "true")

\* C5 (amended): when every task of the previous run returned true, the
\* next run of downloadDiffAssets on the same destination root issues no
\* GET and every task that returned reports success.
C5_SecondRunAfterSuccess ==
    (script = "getAssets" /\ prevRun = "allTrue") =>
        \A t \in Tasks :
            /\ task[t].gets = 0
            /\ task[t].pc \in {"queued", "done"}
            /\ Returned(t) => task[t].result = "true"

\* A second run after a fully successful first run has ended.
C5_Witness ==
    /\ script = "getAssets"
    /\ prevRun = "allTrue"
    /\ batchPc = "done"
    /\ \A t \in Tasks : Succeeded(t)

\* C6: a GET that failed with 403 or 404 ends the task at once with false:
\* one GET per attempt made, no backoff wait after the failure, no further
\* attempt.
C6_PermanentIsTerminal ==
    \A t \in Tasks :
        (task[t].last = <<403>> \/ task[t].last = <<404>>) =>
            /\ Failed(t)
            /\ task[t].gets = task[t].attempt
            /\ Len(task[t].waits) = task[t].attempt - 1

\* A task ended by a 403 on its second attempt, and one by a 404.
C6_Witness ==
    /\ \E t \in Tasks : task[t].last = <<403>> /\ task[t].attempt = 2
    /\ \E t \in Tasks : task[t].last = <<404>>

Retryable(status) == status # 403 /\ status # 404

C8_FailureIsolated ==
    /\ batchPc # "threw"
    /\ \A t \in Tasks : task[t].result \in {"none", "true", "false"}
    /\ batchPc = "done" => \A t \in Tasks : Succeeded(t) \/ Failed(t)

\* A finished batch in which one task failed for good and a task started
\* after it succeeded.
C8_Witness ==
    /\ batchPc = "done"
    /\ \E t, u \in Tasks : t < u /\ Failed(t) /\ Succeeded(u) /\ IsComplete(disk[u])

\* C9: at most MAX_CONCURRENT_DOWNLOADS downloadFile calls are in progress,
\* counted over all lists of the batch.
C9_BoundedConcurrency ==
    Cardinality(PoolRunning) <= MAX_CONCURRENT_DOWNLOADS

\* Ten calls are running, from more than one list, while others wait.
C9_Witness ==
    /\ poolScript = "getAssets"
    /\ Cardinality(PoolRunning) = MAX_CONCURRENT_DOWNLOADS
    /\ \E i \in DOMAIN poolState : poolState[i] = "queued"
    /\ \E i \in PoolRunning : PoolQueue(poolScript)[i].list = "change"

\* C10 (as claimed): after a batch the caller has exactly the identifiers of
\* the tasks whose downloadFile returned false.
C10_FailuresSurfaced ==
    batchPc = "done" =>
        /\ surfaced.ids = FailedTasks
        /\ FailedTasks # {} => surfaced.known

IsPrefix(a, b) == Len(a) <= Len(b) /\ SubSeq(b, 1, Len(a)) = a

\* C11 (as claimed): the destination path computed by downloadFile lies
\* inside the destination root, for every asset identifier, also one with a
\* leading "/" or with ".." segments.
C11_InsideRoot ==
    pathPc = "joined" => IsPrefix(saveRoot, savePath)

\* The files of the directory that belong to the group of output `key`.
Members(key) ==
    {f \in Range(dirFiles) : SegmentMatch(mergeProg, f.name) /\ f.name.base = key}

OrdinalOf(f) == IF f.name.sfx = NoSuffix THEN 0 ELSE ParseInt(f.name.sfx)

\* Every arrangement of the set S of files, each file once, in which the
\* ordinals never decrease.
AscendingOrders(S) ==
    {o \in [1..Cardinality(S) -> S] :
        /\ \A i, j \in DOMAIN o : i # j => o[i] # o[j]
        /\ \A i, j \in DOMAIN o : i < j => OrdinalOf(o[i]) <= OrdinalOf(o[j])}

RECURSIVE ConcatContents(_)
ConcatContents(o) ==
    IF o = <<>> THEN <<>> ELSE Content(Head(o)) \o ConcatContents(Tail(o))

\* C12: the output of every completed group of mergeAllSegmentedAcbFiles
\* and of mergeBytesFiles holds exactly the contents of all members of the
\* group, each once, one after the other in ascending ordinal order,
\* whatever the discovery order; an empty member adds nothing and the merge
\* goes on after it.
C12_OrderedConcatenation ==
    \A key \in merged :
        /\ outFiles[key].exists
        /\ \E o \in AscendingOrders(Members(key)) : outFiles[key].bytes = ConcatContents(o)

\* A group of three members was merged by streaming: the directory listed
\* the highest ordinal first, and the member in the middle is empty.
C12_Witness ==
    /\ mergeProg \in {"acb", "bytes"}
    /\ "x" \in merged
    /\ outFiles["x"].by = "stream"
    /\ Cardinality(Members("x")) = 3
    /\ Len(dirFiles) = 3
    /\ OrdinalOf(dirFiles[1]) = 3
    /\ \E o \in AscendingOrders(Members("x")) : o[2].len = 0 /\ o[3].len > 0 /\ o[1].len > 0

\* C13 (as claimed): when a source segment could not be opened or read
\* during a merge, no file is at that group's output path once the merge
\* has ended.
C13_NoOutputAfterReadError ==
    mergeError = "reader" => ~outFiles[CurKey].exists

Ordinals(key) == {OrdinalOf(f) : f \in Members(key)}

\* An ordinal between two ordinals of the group has no member.
HasGap(key) ==
    \E a, b \in Ordinals(key) : \E n \in (a + 1)..(b - 1) : n \notin Ordinals(key)

\* The pass handles the group: the ACB pass only groups of two or more.
Handled(key) ==
    IF mergeProg = "acb" THEN Cardinality(Members(key)) > 1 ELSE Members(key) # {}

\* C14 (as claimed): after a pass that ran to its end, a group with a gap
\* in its ordinals has no output written for it, and every other group the
\* pass handles is merged.
C14_GapLeavesNoOutput ==
    mpc = "done" =>
        \A key \in Bases :
            /\ HasGap(key) => outFiles[key].by = "none"
            /\ (Handled(key) /\ ~HasGap(key)) => key \in merged

\* C15 (as claimed): in every group that was built the ordinals of the
\* parts are pairwise distinct, and the parts are in ascending order while
\* they are concatenated.
C15_DistinctAscending ==
    /\ \A g \in DOMAIN groups :
          \A i, j \in DOMAIN groups[g].val :
              i # j => Ordinal(groups[g].val[i]) # Ordinal(groups[g].val[j])
    /\ mpc \in {"streaming", "ending"} =>
          \A i, j \in DOMAIN CurParts : i < j => Ordinal(CurParts[i]) <= Ordinal(CurParts[j])

\* C16: in both versions of mergeBytesFiles an output is made by a plain
\* copy, with no write stream created for it, exactly when its group has a
\* sole member and that member's ordinal is 0; every other output is made
\* through one write stream.
C16_CopyOnlySoleZero ==
    mergeProg \in {"bytes", "bytesDir"} =>
        \A key \in Bases :
            outFiles[key].by # "none" =>
                /\ outFiles[key].by = "copy" <=>
                      (Cardinality(Members(key)) = 1 /\ Ordinals(key) = {0})
                /\ outFiles[key].by = "copy" => writers[key].opens = 0
                /\ outFiles[key].by = "stream" => writers[key].opens = 1

\* A pass of mergeBytesFiles copied a sole member without suffix and
\* streamed a sole member with ordinal 1.
C16_Witness ==
    /\ mergeProg = "bytes"
    /\ mpc = "done"
    /\ merged = {"x", "y"}
    /\ outFiles["x"].by = "copy"
    /\ outFiles["y"].by = "stream"
    /\ Cardinality(Members("y")) = 1

AllSources == {dirFiles[i].name : i \in DOMAIN dirFiles}

C18_OneWriterSequentialReaders ==
    mergeProg \in {"acb", "bytes"} =>
        /\ \A key \in Bases : writers[key].opens <= 1
        /\ Cardinality(readersOpen) <= 1
        /\ \A i \in readersOpen : \A j \in 1..(i - 1) : j \in readersEnded
        /\ mpc = "streaming" => writers[CurKey].state = "open" /\ readersOpen = {ri}
        /\ mpc = "ending" =>
              /\ writers[CurKey].state = "ended"
              /\ readersOpen = {}
              /\ readersEnded = DOMAIN CurParts
        /\ \A key \in Bases : writers[key].state \in {"ended", "finished"} =>
              \/ key \in merged
              \/ mpc = "ending" /\ key = CurKey
        /\ \A key \in merged : outFiles[key].by = "stream" => writers[key].state = "finished"

\* The write stream of a group of three parts has been ended, after the
\* third read stream ended, and has not finished yet.
C18_Witness ==
    /\ mergeProg = "acb"
    /\ mpc = "ending"
    /\ Len(CurParts) = 3
    /\ readersEnded = {1, 2, 3}
    /\ CurKey \notin merged

Shared(p) == refTree[p] # Absent /\ candStart[p] # Absent
Identical(p) == Shared(p) /\ refTree[p] = candStart[p]
Differing(p) == Shared(p) /\ refTree[p] # candStart[p]
CandidateOnly(p) == refTree[p] = Absent /\ candStart[p] # Absent

\* C19 (as claimed): once removeUnchangedFiles has ended, every path with
\* identical content in both trees is gone from the candidate tree, and
\* every shared path with differing content is still there and is in the
\* returned list, EBUSY/EPERM errors or not.
C19_ReconciliationEquivalence ==
    reconPc = "done" =>
        \A p \in RPaths :
            /\ Identical(p) => candTree[p] = Absent
            /\ Differing(p) =>
                  /\ candTree[p] = candStart[p]
                  /\ returned.known
                  /\ p \in Range(returned.list)

\* C20 (as claimed): once removeUnchangedFiles has ended, every path that
\* is only in the candidate tree is still there and is in the returned
\* list, and the returned list holds exactly the candidate paths that are
\* new or differ from the reference.
C20_CandidateOnlyRecorded ==
    reconPc = "done" =>
        /\ \A p \in RPaths :
              CandidateOnly(p) => candTree[p] = candStart[p] /\ p \in Range(returned.list)
        /\ Range(returned.list) = {p \in RPaths : CandidateOnly(p) \/ Differing(p)}
        /\ (\E p \in RPaths : CandidateOnly(p) \/ Differing(p)) => returned.known

\* The subtree of directory d holds a file.
HoldsFile(d, tree) == \E p \in RPaths : tree[p] # Absent /\ IsPrefix(d, DirOf(p))

C27_MissingDirIsEmpty ==
    [][\A m \in pruneMet' \ pruneMet :
          IF m.code = "ENOENT"
          THEN /\ reconPc' # "threw"
               /\ pruneStack' = PopWith(pruneStack, TRUE)
          ELSE reconPc' = "threw"]_vars

\* A pass returned normally although a listed directory had been removed by
\* another pruning step before it was visited.
C27_Witness ==
    /\ reconPc = "done"
    /\ \E m \in pruneMet : m.code = "ENOENT"

\* C22 (as claimed): a pair whose read ran out of retries is a per-item
\* failure only: removeUnchangedFiles does not reject because of it.
C22_ReadExhaustionIsPerItem ==
    (\E p \in RPaths : rtask[p] = "rejected") => reconPc # "threw"

\* Every comparison task has ended, one way or the other.
AllSettled == \A p \in RPaths : rtask[p] \in {"none", "done", "rejected"}

\* C25: the list the earlier removeUnchangedFiles returns holds every shared
\* path with differing content exactly once, whatever the interleaving of
\* the tasks, and it is returned only when every task has ended.
C25_ChangedListSafe ==
    /\ returned.known => \A p \in RPaths : rtask[p] \in {"none", "done"}
    /\ (reconPc = "done" /\ reconScript = "earlier") =>
          /\ returned.known
          /\ NoDuplicates(returned.list)
          /\ Range(returned.list) = {p \in RPaths : Differing(p)}

\* Two tasks pushed a path each, the second path first.
C25_Witness ==
    /\ reconPc = "done"
    /\ reconScript = "earlier"
    /\ returned.known
    /\ returned.list = <<2, 1>>

\* C26: once every task has ended, what is left of the candidate tree is
\* fixed by the contents of the two trees and by the calls that failed, not
\* by the order in which the tasks ran: a path is deleted exactly when its
\* content is identical in both trees, its reads succeeded and its unlink did
\* not give up; every other path keeps its content.
C26_OrderIndependent ==
    (reconPc # "idle" /\ AllSettled) =>
        \A p \in RPaths :
            candTree[p] = IF Identical(p) /\ rtask[p] = "done" /\ p \notin gaveUp
                          THEN Absent
                          ELSE candStart[p]

\* The second pair was finished before the first one: the identical file is
\* deleted and the differing one retained all the same.
C26_Witness ==
    /\ reconPc = "done"
    /\ doneOrder = <<2, 1>>
    /\ Identical(1)
    /\ Differing(2)
    /\ candTree[1] = Absent
    /\ candTree[2] = candStart[2]

\* C28 (as claimed): compareVersions writes a diff record only when both
\* snapshots yielded at least one valid entry.
C28_EmptyManifestIsError ==
    diffBy = "compareVersions" =>
        /\ readFileToAssetMap(oldLines) # <<>>
        /\ readFileToAssetMap(newLines) # <<>>

\* C29: in the diff of compareVersions a path of the old manifest that the
\* new one lacks is in neither list; with an empty old manifest `added` holds
\* every path of the new manifest and `changed` is empty; with an empty new
\* manifest both lists are empty.
C29_DeletionsAndEmptyManifests ==
    diffBy = "compareVersions" =>
        LET oldMap == readFileToAssetMap(oldLines)
            newMap == readFileToAssetMap(newLines)
        IN /\ \A p \in KeySet(oldMap) \ KeySet(newMap) :
                 p \notin Range(added) \cup Range(changed)
           /\ oldMap = <<>> => Range(added) = KeySet(newMap) /\ changed = <<>>
           /\ newMap = <<>> => added = <<>> /\ changed = <<>>

\* A path was dropped between two manifests that both have entries.
C29_Witness ==
    /\ diffBy = "compareVersions"
    /\ readFileToAssetMap(newLines) # <<>>
    /\ KeySet(readFileToAssetMap(oldLines)) \ KeySet(readFileToAssetMap(newLines)) # {}

\* C30: compareVersions on twice the same manifest yields an empty `added`
\* and an empty `changed`.
C30_DiffIdentity ==
    (diffBy = "compareVersions" /\ oldLines = newLines) =>
        added = <<>> /\ changed = <<>>

\* A manifest with two entries was compared with itself.
C30_Witness ==
    /\ diffBy = "compareVersions"
    /\ oldLines = newLines
    /\ Cardinality(KeySet(readFileToAssetMap(newLines))) = 2

\* The fs calls made so far.
SafeAttempts == Len(safeCodes)
SafeBusyMet == Len(SelectSeq(safeCodes, IsBusyCode))

\* C23: safeRead and safeDelete make at most SAFE_RETRY fs calls; every busy
\* code (EBUSY/EPERM) is followed by one wait of 100 ms and nothing else is
\* waited for; any other error code ends the call at once, rethrown; after
\* SAFE_RETRY busy codes safeRead ends with an error and safeDelete with a
\* warning, and neither ends that way sooner.
C23_BoundedRetries ==
    /\ SafeAttempts <= SAFE_RETRY
    /\ Len(safeWaits) = SafeBusyMet
    /\ \A i \in DOMAIN safeWaits : safeWaits[i] = 100
    /\ \A i \in DOMAIN safeCodes :
          ~IsBusyCode(safeCodes[i]) =>
              /\ i = Len(safeCodes)
              /\ safePc = IF safeCodes[i] = "ok" THEN "returned" ELSE "rethrew"
    /\ safePc \in {"failed", "warned"} =>
          /\ SafeAttempts = SAFE_RETRY
          /\ SafeBusyMet = SAFE_RETRY
          /\ safePc = IF safeOp = "read" THEN "failed" ELSE "warned"

\* safeDelete met EPERM and then EBUSY four times and ended with the warning.
C23_Witness ==
    /\ safeOp = "delete"
    /\ safePc = "warned"
    /\ safeCodes = <<"EPERM", "EBUSY", "EBUSY", "EBUSY", "EBUSY">>

\* C24: at most RECON_CONCURRENCY closures of removeUnchangedFiles are in
\* progress, counted over both calls.
C24_BoundedComparisons ==
    Cardinality(LimitRunning) <= RECON_CONCURRENCY

\* Five closures run, of both calls, while a closure waits and both calls
\* are in progress.
C24_Witness ==
    /\ Cardinality(LimitRunning) = RECON_CONCURRENCY
    /\ \A c \in Calls : callState[c] = "waiting"
    /\ \A c \in Calls : \E i \in LimitRunning : limitQueue[i].call = c
    /\ \E i \in DOMAIN limitQueue : limitQueue[i].st = "queued"

Ascending(arr) == \A i \in DOMAIN arr : \A j \in DOMAIN arr : i < j => StrLess(arr[i], arr[j])
MapPairs(m) == {<<m[i].key, m[i].val>> : i \in DOMAIN m}

\* C31: `added` and `changed` are in ascending order of path, in the diff
\* of compareVersions and of the earlier main; an ascending list is fixed
\* by its elements, and these are fixed by the two manifests as sets of
\* pairs of path and hash, so the order of the lines in the snapshot files
\* has no part in the record.
C31_SortedDiff ==
    diffBy # "none" =>
        LET old == MapPairs(readFileToAssetMap(oldLines))
            new == MapPairs(readFileToAssetMap(newLines))
        IN /\ Ascending(added)
           /\ Ascending(changed)
           /\ Range(added) = {q[1] : q \in {n \in new : \A o \in old : o[1] # n[1]}}
           /\ Range(changed) =
                 {q[1] : q \in {n \in new : \E o \in old : o[1] = n[1] /\ o[2] # n[2]}}

\* Two added paths whose lines stand in descending order in the snapshot.
C31_Witness ==
    /\ diffBy = "compareVersions"
    /\ Len(added) = 2
    /\ Len(newLines) = 2
    /\ StrLess(newLines[2].toks[1], newLines[1].toks[1])

\* The lines of a snapshot that carry a hash, and the path each one names.
HashedLines(lines) == {i \in DOMAIN lines : lines[i].hash # NoHash /\ lines[i].toks # <<>>}
PathOfLine(line) == line.toks[Len(line.toks)]

\* C32: the map compareVersions reads from a snapshot has every path once,
\* its keys are the paths of the lines that carry a hash, and the hash of a
\* path is the hash of the last line that names it.
C32_LastLineWins ==
    diffBy = "compareVersions" =>
        \A lines \in {oldLines, newLines} :
            LET data == readFileToAssetMap(lines)
            IN /\ NoDuplicates(MapKeys(data))
               /\ KeySet(data) = {PathOfLine(lines[i]) : i \in HashedLines(lines)}
               /\ \A i \in HashedLines(lines) :
                     (\A j \in HashedLines(lines) :
                         (j > i) => PathOfLine(lines[j]) # PathOfLine(lines[i]))
                     => MapGet(data, PathOfLine(lines[i])) = lines[i].hash

\* The new snapshot names one path twice, with two hashes.
C32_Witness ==
    /\ diffBy = "compareVersions"
    /\ Len(newLines) = 2
    /\ newLines[1].hash # NoHash
    /\ newLines[2].hash # NoHash
    /\ newLines[1].hash # newLines[2].hash
    /\ PathOfLine(newLines[1]) = PathOfLine(newLines[2])

\* C36 (as claimed): a batch of getAssets.ts that has started is over in
\* the end, whatever happens to the response streams.
C36_BatchEventuallySettles ==
    (script = "getAssets" /\ batchPc = "running") ~> (batchPc # "running")

\* C38: no step of removeUnchangedFiles changes a file of the reference
\* tree, and the only change to a file of the candidate tree is the deletion
\* of a file that the reference tree holds at the same relative path with
\* the same content.
C38_OnlyUnchangedDeleted ==
    [][/\ refTree' = refTree
       /\ \A p \in RPaths :
             candTree'[p] # candTree[p] =>
                 /\ candTree'[p] = Absent
                 /\ refTree[p] # Absent
                 /\ refTree[p] = candTree[p]]_vars

\* A pass ended with the identical file deleted, the candidate-only file
\* still there.
C38_Witness ==
    /\ reconPc = "done"
    /\ \E p \in RPaths : Identical(p) /\ candTree[p] = Absent
    /\ \E p \in RPaths : CandidateOnly(p) /\ candTree[p] = candStart[p]

LogOf(stage, ev) == {i \in DOMAIN cliLog : cliLog[i].stage = stage /\ cliLog[i].ev = ev}

\* C34 (as claimed): in a run of index.ts no stage function is called before
\* the one before it has returned or thrown, and removeUnchangedFiles is
\* called only after mergeAllSegmentedAcbFiles and decodeLatestAssets have
\* returned.
C34_StagesInOrder ==
    cliCmd = "index" =>
        /\ \A i \in DOMAIN cliLog :
              (cliLog[i].ev = "start" /\ i > 1) => cliLog[i - 1].ev \in {"end", "throw"}
        /\ \A i \in LogOf("reconciliation", "start") :
              /\ \E j \in LogOf("reassembly", "end") : j < i
              /\ \E j \in LogOf("decode", "end") : j < i

\* C35 (as claimed): compare, downloadAB and getAssets end with a status
\* other than 0 exactly when the stage function threw.
C35_ExitStatus ==
    (cliCmd \in {"compare", "downloadAB", "getAssets"} /\ cliPc = "exited") =>
        (exitCode # 0 <=> \E i \in DOMAIN cliLog : cliLog[i].ev = "throw")

\* a < b for two sequences of four numbers, component by component.
NumericLess(a, b) ==
    \E i \in 1..4 : a[i] < b[i] /\ \A j \in 1..(i - 1) : a[j] = b[j]

\* C33 (as claimed): after a call that stored a snapshot the keys of the
\* registry are in descending order of version, the versions compared as
\* numbers component by component.
C33_RegistryDescending ==
    (abPc = "done" /\ (snapshots # abBefore.snapshots \/ registry # abBefore.registry)) =>
        \A i, j \in DOMAIN registry :
            i < j => NumericLess(registry[j].ver, registry[i].ver)

\* C40: when the snapshot file of the version a downloadAB call settles on
\* exists, the call sends no GET, leaves snapshots and registry as they
\* were and returns version, path and URL; the registry changes only in a
\* call that sent a GET and stored the snapshot, and a call that throws
\* leaves both as they were.
C40_SkipLeavesRegistry ==
    (abScript \in {"current", "urlOnly"} /\ abPc \notin {"off", "idle"}) =>
        /\ (abTarget.err = "none" /\ abTarget.version \in abBefore.snapshots) =>
              /\ abPc = "done"
              /\ abRequests = 0
              /\ registry = abBefore.registry
              /\ snapshots = abBefore.snapshots
              /\ abResult = [version |-> abTarget.version, filePath |-> abTarget.version,
                             url |-> abTarget.url]
        /\ registry # abBefore.registry =>
              /\ abPc = "done"
              /\ abRequests = 1
              /\ abTarget.version \in snapshots \ abBefore.snapshots
        /\ abPc \in {"threw", "requesting"} =>
              /\ registry = abBefore.registry
              /\ snapshots = abBefore.snapshots

\* A call found the snapshot of a version that the registry does not have.
C40_Witness ==
    /\ abScript = "current"
    /\ abPc = "done"
    /\ abRequests = 0
    /\ abTarget.version \in abBefore.snapshots
    /\ \A i \in DOMAIN registry : registry[i].ver # abTarget.version

\* The snapshot files of the directory, and the order the claim puts them
\* in: by number, component by component, and as listed for equal numbers.
SnapshotFiles == {f \in Range(filesInDir) : f \in Versions}
ListedAt(f) == CHOOSE i \in DOMAIN filesInDir : filesInDir[i] = f
Precedes(f, g) ==
    \/ NumericLess(versionKey(f), versionKey(g))
    \/ versionKey(f) = versionKey(g) /\ ListedAt(f) < ListedAt(g)
Below(f) == {g \in SnapshotFiles : Precedes(g, f)}
IsLast(f, S) == f \in S /\ \A g \in S \ {f} : Precedes(g, f)

\* C37: compareVersions takes the highest version as new without a target
\* and the target with one, and as old the highest version below new; it
\* throws for fewer than two snapshot files, for a target that is no file
\* and for a target with no version below it, and writes the diff record
\* exactly when it does not throw.
C37_VersionChoice ==
    selPc \notin {"off", "idle"} =>
        /\ selPc = "too few" <=> Cardinality(SnapshotFiles) < 2
        /\ selPc = "not found" <=>
              (Cardinality(SnapshotFiles) >= 2 /\ targetVersion # NoTarget
                 /\ targetVersion \notin SnapshotFiles)
        /\ selPc = "no older" <=>
              (Cardinality(SnapshotFiles) >= 2 /\ targetVersion \in SnapshotFiles
                 /\ Below(targetVersion) = {})
        /\ selPc = "done" =>
              /\ IF targetVersion = NoTarget
                 THEN IsLast(selected.new, SnapshotFiles)
                 ELSE selected.new = targetVersion
              /\ IsLast(selected.old, Below(selected.new))
        /\ diffWritten <=> selPc = "done"

\* Version ....10 was chosen as new and ....9 as old: the order of the
\* numbers, not of the strings.
C37_Witness ==
    /\ selPc = "done"
    /\ targetVersion = NoTarget
    /\ selected.new[3] = selected.old[3]
    /\ selected.new[4] = <<1, 0>>
    /\ selected.old[4] = <<9>>

\* C39 (as claimed): when flatFolder has ended, every file of the tree it
\* was called on exists exactly once, and no directory has exactly one
\* subdirectory and no file.
C39_FlattenedAndPreserved ==
    flatPc \in {"returned", "threw"} =>
        /\ \A f \in original :
              Cardinality({e \in flatTree : e.kind = "file" /\ e.id = f}) = 1
        /\ Cardinality({e \in flatTree : e.kind = "file"}) = Cardinality(original)
        /\ \A d \in flatTree :
              d.kind = "dir" =>
                  ~(Cardinality(DirsOf(flatTree, d.path)) = 1 /\ FilesOf(flatTree, d.path) = {})

====
